---- MODULE Spec2Model ----
(***************************************************************************)
(* Model of the two ECS Fargate constructs of cdk-aws-constructs-library:  *)
(*   MultiServiceECSFargateLoadBalancedConstruct  (variant "multi")        *)
(*   SingleServicePrivateECSFargateConstruct      (variant "single")       *)
(* A behaviour is one run of one constructor on one props object: the zod  *)
(* validation, then the resources in the order the constructor creates     *)
(* them.  Optional props fields are sets: {} when omitted, {v} when given. *)
(***************************************************************************)
EXTENDS Integers, Sequences, FiniteSets, TLC

VARIABLES
  variant,          \* which constructor runs: "multi" or "single"
  props,            \* the props object handed to the constructor
  region,           \* cdk.Stack.of(this).region of the scope constructed in
  run,              \* 1 for the first construction from props, 2 for the second
  first,            \* what the first construction left, once it is over
  pc,               \* the statement the constructor is at
  idx,              \* index of the service the multi-service loop is at
  resources,        \* the constructs created so far, in creation order
  services,         \* this.services      (ids of the FargateService constructs)
  taskDefinitions,  \* this.taskDefinitions (ids of the task definitions)
  thrown,           \* what the constructor threw, if anything
  console           \* what the constructor wrote with console.error

vars ==
  <<variant, props, region, run, first, pc, idx, resources, services, taskDefinitions, thrown, console>>

\* Largest number of entries of props.ecsServices explored.
MaxServices == 2

(***************************************************************************)
(* Optional values and the JavaScript operators the constructors use.      *)
(***************************************************************************)
Has(o) == o # {}
Val(o) == CHOOSE v \in o : TRUE

\* `x || d` on an optional number: undefined and 0 are falsy.
NumOr(o, d) == IF o = {} THEN d ELSE IF Val(o) = 0 THEN d ELSE Val(o)
\* `x || d` on an optional string: undefined and "" are falsy.
StrOr(o, d) == IF o = {} THEN d ELSE IF Val(o) = "" THEN d ELSE Val(o)
\* `x || d` on an optional object: every object is truthy.
ObjOr(o, d) == IF o = {} THEN d ELSE Val(o)
\* `if (x)` on an optional number.
Truthy(o) == o # {} /\ Val(o) # 0

\* z.string().startsWith(p)
StartsWith(s, p) == Len(s) >= Len(p) /\ SubSeq(s, 1, Len(p)) = p

\* Mutant of Spread: the spreads swapped, so the computed keys win.
Spread_AutoWins(auto, user) == auto @@ user

\* { ...auto, ...user }: the keys of both, the later spread winning.
Spread(auto, user) == user @@ auto

(***************************************************************************)
(* The props explored.  One service is varied one group of fields at a     *)
(* time around BaseService; the services after the first come from         *)
(* OtherServices.                                                          *)
(***************************************************************************)
\* The object {}.
EmptyMap == [k \in {} |-> ""]

BaseService ==
  [ name |-> "a", port |-> 8080, desiredCount |-> 2, version |-> "v1",
    envVariables |-> EmptyMap, priority |-> 1,
    image |-> [path |-> "src/a", name |-> {}, labels |-> {}],
    healthCheckConfig |-> [path |-> "/health", intervalSeconds |-> {},
                           timeoutSeconds |-> {}, retries |-> {},
                           startPeriodSeconds |-> {}],
    fargateConfig |-> {}, logGroupConfig |-> {}, autoScalingConfig |-> {} ]

Names == {"", "a", "b"}
Ports == {0, 1, 8080, 65535, 65536}
DesiredCounts == {0, 1, 2}
Versions == {"", "v1"}
EnvValue == [PORT |-> "9999", SERVICE_NAME |-> "mine", API_VERSION |-> "v9",
             NODE_ENV |-> "production"]
EnvMaps == {[k \in K |-> EnvValue[k]] : K \in SUBSET DOMAIN EnvValue}
ImagePaths == {"", "src/a"}
ImageNames == {{}, {""}, {"Dockerfile.a"}}
ImageLabels == {{}, {EmptyMap}, {[service |-> "a", version |-> "v1"]}}
HealthPaths == {"", "health", "/", "/health"}
OptSeconds == {{}, {0}, {10}}
OptRetries == {{}, {0}, {5}}
OptCpu == {{}, {256}, {300}}
OptMemory == {{}, {2048}, {1000}}
LogNames == {"", "custom-logs"}
LogRemovalPolicies == {"destroy", "retain", "bogus"}
LogRetentions == {"ONE_WEEK", "TWO_WEEKS", "bogus"}
Capacities == {0, 1, 3}
OptUtilization == {{}, {0}, {70}, {101}}

HealthCheckConfigs ==
  {[path |-> p, intervalSeconds |-> {}, timeoutSeconds |-> {}, retries |-> {},
    startPeriodSeconds |-> {}] : p \in HealthPaths}
  \cup
  {[path |-> "/health", intervalSeconds |-> i, timeoutSeconds |-> t,
    retries |-> r, startPeriodSeconds |-> s] :
      i \in OptSeconds, t \in OptSeconds, r \in OptRetries, s \in OptSeconds}
FargateConfigs ==
  {{}} \cup {{[cpu |-> c, memoryLimitMiB |-> m]} : c \in OptCpu, m \in OptMemory}
LogGroupConfigs ==
  {{}} \cup {{[logGroupName |-> n, removalPolicy |-> p, retention |-> r]} :
               n \in LogNames, p \in LogRemovalPolicies, r \in LogRetentions}
AutoScalingConfigs ==
  {{}} \cup {{[minCapacity |-> lo, maxCapacity |-> hi,
               targetCpuUtilization |-> c, targetMemoryUtilization |-> m]} :
               lo \in Capacities, hi \in Capacities,
               c \in OptUtilization, m \in OptUtilization}

\* Every pair of the two compute-size enumerations, and a value outside each.
CpuValues == {256, 512, 1024, 2048, 4096, 300}
MemoryValues ==
  {512, 1024, 2048, 3072, 4096, 5120, 6144, 7168, 8192, 16384, 30720, 1000}
ComputeSizeServices ==
  {[BaseService EXCEPT !.fargateConfig = {[cpu |-> {c}, memoryLimitMiB |-> {m}]}] :
      c \in CpuValues, m \in MemoryValues}

FirstServices ==
  {[BaseService EXCEPT !.name = n, !.port = p, !.desiredCount = d, !.version = v] :
      n \in Names, p \in Ports, d \in DesiredCounts, v \in Versions}
  \cup {[BaseService EXCEPT !.envVariables = e, !.port = p] :
          e \in EnvMaps, p \in {1, 8080}}
  \cup {[BaseService EXCEPT !.image = [path |-> p, name |-> n, labels |-> l]] :
          p \in ImagePaths, n \in ImageNames, l \in ImageLabels}
  \cup {[BaseService EXCEPT !.healthCheckConfig = h] : h \in HealthCheckConfigs}
  \cup {[BaseService EXCEPT !.fargateConfig = f] : f \in FargateConfigs}
  \cup {[BaseService EXCEPT !.logGroupConfig = l] : l \in LogGroupConfigs}
  \cup {[BaseService EXCEPT !.autoScalingConfig = a] : a \in AutoScalingConfigs}
  \cup {[BaseService EXCEPT !.version = "v1/x"]}

OtherServices ==
  { [BaseService EXCEPT !.name = "b", !.port = 8081, !.priority = 2],
    [BaseService EXCEPT !.name = "b", !.port = 8081],
    [BaseService EXCEPT !.priority = 2, !.version = "v2"],
    [BaseService EXCEPT !.name = "b", !.port = 0, !.priority = 2],
    [BaseService EXCEPT !.name = "a/v1", !.version = "x", !.priority = 2],
    [BaseService EXCEPT !.name = "b", !.desiredCount = 0, !.priority = 2] }

\* The third and later entries of props.ecsServices: one more valid service,
\* and one that repeats the first service's priority.
LaterServices ==
  { [BaseService EXCEPT !.name = "c", !.port = 8082, !.priority = 3],
    [BaseService EXCEPT !.name = "c", !.port = 8082] }

RECURSIVE ServiceLists(_)
ServiceLists(n) ==
  IF n = 0 THEN {<<>>}
  ELSE IF n = 1 THEN {<<s>> : s \in FirstServices}
  ELSE IF n = 2 THEN {Append(l, s) : l \in ServiceLists(1), s \in OtherServices}
  ELSE {Append(l, s) : l \in ServiceLists(n - 1), s \in LaterServices}

\* A network handle: an ec2.Vpc created in the app, or an IVpc that was
\* imported or looked up (which is no instance of the ec2.Vpc class).
Vpcs == { [class |-> "Vpc", vpcCidrBlock |-> "10.0.0.0/16"],
          [class |-> "ImportedVpc", vpcCidrBlock |-> "10.1.0.0/16"] }
BaseVpc == [class |-> "Vpc", vpcCidrBlock |-> "10.0.0.0/16"]

BaseMultiProps ==
  [ appName |-> "app", tagEnv |-> "dev", vpc |-> BaseVpc,
    hostedZoneId |-> "Z1", domainName |-> "example.com",
    apiSubdomainName |-> "api", ecsServices |-> <<BaseService>> ]

MultiProps ==
  {[BaseMultiProps EXCEPT !.ecsServices = l] :
      l \in UNION {ServiceLists(n) : n \in 0..MaxServices}}
  \cup {[BaseMultiProps EXCEPT !.ecsServices = <<s>>] : s \in ComputeSizeServices}
  \cup {[BaseMultiProps EXCEPT !.appName = a, !.tagEnv = t, !.vpc = v] :
          a \in {"ab", "app"}, t \in {"", "dev"}, v \in Vpcs}
  \cup {[BaseMultiProps EXCEPT !.hostedZoneId = h, !.domainName = d,
                               !.apiSubdomainName = s] :
          h \in {"", "Z1"}, d \in {"", "example.com"}, s \in {"", "api"}}

\* The service object of the single-service props: the common fields, with
\* the health-check path as a field of its own.
SingleService(s) ==
  [ name |-> s.name, port |-> s.port, desiredCount |-> s.desiredCount,
    version |-> s.version, envVariables |-> s.envVariables, image |-> s.image,
    healthCheckPath |-> s.healthCheckConfig.path,
    fargateConfig |-> s.fargateConfig, logGroupConfig |-> s.logGroupConfig ]

SingleProps ==
  {[appName |-> "app", tagEnv |-> "dev", vpc |-> BaseVpc,
    service |-> SingleService(s)] : s \in FirstServices \cup ComputeSizeServices}
  \cup {[appName |-> a, tagEnv |-> t, vpc |-> v,
         service |-> SingleService(BaseService)] :
          a \in {"ab", "app"}, t \in {"", "dev"}, v \in Vpcs}

(***************************************************************************)
(* The zod schemas.  Each returns the set of issues zod collects (the      *)
(* paths of the fields that fail); parse() throws iff the set is not empty.*)
(***************************************************************************)
Prefixed(prefix, issues) == {prefix \o i : i \in issues}

\* z.string().min(n)
MinLen(str, n, path) == IF Len(str) >= n THEN {} ELSE {path}
\* z.number().min(n)
MinNum(num, n, path) == IF num >= n THEN {} ELSE {path}
\* z.number().max(n)
MaxNum(num, n, path) == IF num <= n THEN {} ELSE {path}
\* z.union([z.literal(..), ..]).optional()
OptLiteral(o, literals, path) ==
  IF Has(o) /\ Val(o) \notin literals THEN {path} ELSE {}

\* The members of aws-cdk-lib's RemovalPolicy and RetentionDays enums used.
RemovalPolicy == {"destroy", "retain", "snapshot"}
RetentionDays == {"ONE_WEEK", "TWO_WEEKS", "ONE_MONTH"}

MultiCpuLiterals == {256, 512, 1024, 2048, 4096}
MultiMemoryLiterals ==
  {512, 1024, 2048, 3072, 4096, 5120, 6144, 7168, 8192, 16384, 30720}

MultiFargateIssues(f) ==
  IF f = {} THEN {}
  ELSE OptLiteral(Val(f).cpu, MultiCpuLiterals, "fargateConfig.cpu")
       \cup OptLiteral(Val(f).memoryLimitMiB, MultiMemoryLiterals,
                       "fargateConfig.memoryLimitMiB")

MultiLogGroupIssues(l) ==
  IF l = {} THEN {}
  ELSE MinLen(Val(l).logGroupName, 1, "logGroupConfig.logGroupName")
       \cup (IF Val(l).removalPolicy \in RemovalPolicy THEN {}
             ELSE {"logGroupConfig.removalPolicy"})
       \cup (IF Val(l).retention \in RetentionDays THEN {}
             ELSE {"logGroupConfig.retention"})

\* Mutant of OptUtilizationIssues: the lower bound is 0, so 0 is accepted.
OptUtilizationIssues_AllowsZero(o, path) ==
  IF o = {} THEN {} ELSE MinNum(Val(o), 0, path) \cup MaxNum(Val(o), 100, path)

\* z.number().min(1).max(100).optional()
OptUtilizationIssues(o, path) ==
  IF o = {} THEN {} ELSE MinNum(Val(o), 1, path) \cup MaxNum(Val(o), 100, path)

\* Mutant of AutoScalingIssues: a refinement rejects maxCapacity < minCapacity.
AutoScalingIssues_ComparesBounds(a) ==
  IF a = {} THEN {}
  ELSE MinNum(Val(a).minCapacity, 1, "autoScalingConfig.minCapacity")
       \cup MinNum(Val(a).maxCapacity, 1, "autoScalingConfig.maxCapacity")
       \cup MinNum(Val(a).maxCapacity, Val(a).minCapacity,
                   "autoScalingConfig.maxCapacity")
       \cup OptUtilizationIssues(Val(a).targetCpuUtilization,
                                 "autoScalingConfig.targetCpuUtilization")
       \cup OptUtilizationIssues(Val(a).targetMemoryUtilization,
                                 "autoScalingConfig.targetMemoryUtilization")

AutoScalingIssues(a) ==
  IF a = {} THEN {}
  ELSE MinNum(Val(a).minCapacity, 1, "autoScalingConfig.minCapacity")
       \cup MinNum(Val(a).maxCapacity, 1, "autoScalingConfig.maxCapacity")
       \cup OptUtilizationIssues(Val(a).targetCpuUtilization,
                                 "autoScalingConfig.targetCpuUtilization")
       \cup OptUtilizationIssues(Val(a).targetMemoryUtilization,
                                 "autoScalingConfig.targetMemoryUtilization")

\* Mutant of MultiPortIssues: the upper bound is exclusive.
MultiPortIssues_ExclusiveMax(port) ==
  MinNum(port, 1, "port") \cup MaxNum(port, 65534, "port")

MultiPortIssues(port) == MinNum(port, 1, "port") \cup MaxNum(port, 65535, "port")

\* Mutant of MultiHealthPathIssues: only the length is checked.
MultiHealthPathIssues_LengthOnly(path) == MinLen(path, 1, "healthCheckConfig.path")

MultiHealthPathIssues(path) ==
  MinLen(path, 1, "healthCheckConfig.path")
  \cup (IF StartsWith(path, "/") THEN {} ELSE {"healthCheckConfig.path"})

ECSServiceConfigSchema(s) ==
  MinLen(s.name, 1, "name")
  \cup MultiPortIssues(s.port)
  \cup MinNum(s.desiredCount, 1, "desiredCount")
  \cup MinLen(s.version, 1, "version")
  \cup MinLen(s.image.path, 1, "image.path")
  \cup MultiHealthPathIssues(s.healthCheckConfig.path)
  \cup MultiFargateIssues(s.fargateConfig)
  \cup MultiLogGroupIssues(s.logGroupConfig)
  \cup AutoScalingIssues(s.autoScalingConfig)

\* z.instanceof(ec2.Vpc)
InstanceOfVpc(vpc) == IF vpc.class = "Vpc" THEN {} ELSE {"vpc"}

\* Mutant of MultiServiceECSFargateLoadBalancedConstructPropsSchema: a
\* refinement rejects two services with the same listener priority.
MultiServiceECSFargateLoadBalancedConstructPropsSchema_UniquePriority(p) ==
  MinLen(p.appName, 3, "appName")
  \cup MinLen(p.tagEnv, 1, "tagEnv")
  \cup InstanceOfVpc(p.vpc)
  \cup MinLen(p.hostedZoneId, 1, "hostedZoneId")
  \cup MinLen(p.domainName, 1, "domainName")
  \cup MinLen(p.apiSubdomainName, 1, "apiSubdomainName")
  \cup (IF Len(p.ecsServices) >= 1 THEN {} ELSE {"ecsServices"})
  \cup UNION {Prefixed("ecsServices[" \o ToString(i) \o "].",
                       ECSServiceConfigSchema(p.ecsServices[i])) :
                i \in 1..Len(p.ecsServices)}
  \cup (IF \E i, j \in 1..Len(p.ecsServices) :
             i # j /\ p.ecsServices[i].priority = p.ecsServices[j].priority
        THEN {"ecsServices"} ELSE {})

MultiServiceECSFargateLoadBalancedConstructPropsSchema(p) ==
  MinLen(p.appName, 3, "appName")
  \cup MinLen(p.tagEnv, 1, "tagEnv")
  \cup InstanceOfVpc(p.vpc)
  \cup MinLen(p.hostedZoneId, 1, "hostedZoneId")
  \cup MinLen(p.domainName, 1, "domainName")
  \cup MinLen(p.apiSubdomainName, 1, "apiSubdomainName")
  \cup (IF Len(p.ecsServices) >= 1 THEN {} ELSE {"ecsServices"})
  \cup UNION {Prefixed("ecsServices[" \o ToString(i) \o "].",
                       ECSServiceConfigSchema(p.ecsServices[i])) :
                i \in 1..Len(p.ecsServices)}

SingleCpuLiterals == {256, 512, 1024, 2048, 4096}
\* Mutant of SingleMemoryLiterals: 3072 is missing from the union.
SingleMemoryLiterals_No3072 ==
  {512, 1024, 2048, 4096, 5120, 6144, 7168, 8192, 16384, 30720}

SingleMemoryLiterals ==
  {512, 1024, 2048, 3072, 4096, 5120, 6144, 7168, 8192, 16384, 30720}

ECSFargateConfigSchema(f) ==
  OptLiteral(f.cpu, SingleCpuLiterals, "cpu")
  \cup OptLiteral(f.memoryLimitMiB, SingleMemoryLiterals, "memoryLimitMiB")

ECSImageObjectSchema(image) == MinLen(image.path, 1, "path")

ECSLogGroupConfigSchema(l) ==
  MinLen(l.logGroupName, 1, "logGroupName")
  \cup (IF l.removalPolicy \in RemovalPolicy THEN {} ELSE {"removalPolicy"})
  \cup (IF l.retention \in RetentionDays THEN {} ELSE {"retention"})

SinglePortIssues(port) == MinNum(port, 1, "port") \cup MaxNum(port, 65535, "port")

ECSServicePropsSchema(s) ==
  MinLen(s.name, 1, "name")
  \cup SinglePortIssues(s.port)
  \cup MinNum(s.desiredCount, 1, "desiredCount")
  \cup MinLen(s.version, 1, "version")
  \cup Prefixed("image.", ECSImageObjectSchema(s.image))
  \cup MinLen(s.healthCheckPath, 1, "healthCheckPath")
  \cup (IF StartsWith(s.healthCheckPath, "/") THEN {} ELSE {"healthCheckPath"})
  \cup (IF s.fargateConfig = {} THEN {}
        ELSE Prefixed("fargateConfig.", ECSFargateConfigSchema(Val(s.fargateConfig))))
  \cup (IF s.logGroupConfig = {} THEN {}
        ELSE Prefixed("logGroupConfig.",
                      ECSLogGroupConfigSchema(Val(s.logGroupConfig))))

SingleServicePrivateECSFargateConstructPropsSchema(p) ==
  MinLen(p.appName, 3, "appName")
  \cup MinLen(p.tagEnv, 1, "tagEnv")
  \cup InstanceOfVpc(p.vpc)
  \cup Prefixed("service.", ECSServicePropsSchema(p.service))

(***************************************************************************)
(* The construct tree.  new X(scope, id, ..) adds a construct to its scope *)
(* and throws when the scope already holds a construct with that id.       *)
(***************************************************************************)
\* The regions of the stacks a construct may be created in.
Regions == {"us-east-1", "eu-west-1"}

OfKind(kind) == SelectSeq(resources, LAMBDA r : r.kind = kind)
Count(kind) == Len(OfKind(kind))
ScopeIds(scope) ==
  {resources[j].id : j \in {k \in 1..Len(resources) : resources[k].scope = scope}}

Throw(error) ==
  /\ pc' = "failed"
  /\ thrown' = error
  /\ UNCHANGED <<resources, services, taskDefinitions, idx, console>>

DuplicateId(id) ==
  [type |-> "Error", issues |-> {},
   message |-> "There is already a Construct with name '" \o id \o "'"]

New(r, next) ==
  IF r.id \in ScopeIds(r.scope)
  THEN Throw(DuplicateId(r.id))
  ELSE /\ resources' = Append(resources, r)
       /\ pc' = next
       /\ UNCHANGED <<services, taskDefinitions, idx, thrown, console>>

(***************************************************************************)
(* MultiServiceECSFargateLoadBalancedConstruct: the values the constructor *)
(* derives from the props and from one entry of props.ecsServices.         *)
(***************************************************************************)
\* Mutant of MultiCertificateId: the id carries a counter that outlives one
\* construction.
MultiCertificateId_Counter(p) == p.appName \o "-ssl-certificate-" \o ToString(run)

MultiCertificateId(p) == p.appName \o "-ssl-certificate"
\* Mutant of MultiCertificateDomainName: the environment tag is left out.
MultiCertificateDomainName_NoEnv(p) == "*." \o p.domainName

MultiCertificateDomainName(p) == "*." \o p.tagEnv \o "." \o p.domainName
MultiClusterName(p) == p.appName \o "-cluster"
MultiLoadBalancerId(p) == p.appName \o "-" \o p.tagEnv \o "-load-balancer"
MultiLoadBalancerSecurityGroup(p) == MultiLoadBalancerId(p) \o "/SecurityGroup"
MultiHttpsListenerId(p) == p.appName \o "-https-listener"
MultiTaskDefinitionId(s) == s.name \o "-task-definition"
\* Mutant of MultiLogGroupId: the id does not carry the service name.
MultiLogGroupId_NoName(s) == "log-group"

MultiLogGroupId(s) == s.name \o "-log-group"
MultiSecurityGroupId(s) == s.name \o "-security-group"
MultiServiceId(p, s) == p.appName \o "-" \o s.name \o "-service"

\* Mutant of MultiMemoryLimitMiB: the default is granted to an omitted block
\* only; a block without memoryLimitMiB passes the missing field on (read 0).
MultiMemoryLimitMiB_BlockDefault(s) ==
  IF s.fargateConfig = {} THEN 1024
  ELSE IF Has(Val(s.fargateConfig).memoryLimitMiB)
       THEN Val(Val(s.fargateConfig).memoryLimitMiB) ELSE 0

MultiMemoryLimitMiB(s) ==
  NumOr(IF s.fargateConfig = {} THEN {} ELSE Val(s.fargateConfig).memoryLimitMiB, 1024)
MultiCpu(s) ==
  NumOr(IF s.fargateConfig = {} THEN {} ELSE Val(s.fargateConfig).cpu, 512)

MultiLogGroupProps(s) ==
  ObjOr(s.logGroupConfig,
        [logGroupName |-> s.name \o "-log-group",
         removalPolicy |-> "destroy", retention |-> "TWO_WEEKS"])

MultiImageFile(s) == StrOr(s.image.name, "Dockerfile")

MultiEnvironmentVariables(s) ==
  Spread([PORT |-> ToString(s.port), SERVICE_NAME |-> s.name,
          API_VERSION |-> s.version],
         s.envVariables)

intervalSeconds(healthCheckConfig) == NumOr(healthCheckConfig.intervalSeconds, 30)
\* Mutant of timeoutSeconds: the interval's default in place of its own.
timeoutSeconds_IntervalDefault(healthCheckConfig) ==
  NumOr(healthCheckConfig.timeoutSeconds, 30)

timeoutSeconds(healthCheckConfig) == NumOr(healthCheckConfig.timeoutSeconds, 5)
retries(healthCheckConfig) == NumOr(healthCheckConfig.retries, 3)
startPeriodSeconds(healthCheckConfig) ==
  NumOr(healthCheckConfig.startPeriodSeconds, 30)

MultiDockerLabels(p, s) ==
  ObjOr(s.image.labels,
        [cluster |-> MultiClusterName(p), service |-> s.name, version |-> s.version])

\* Mutant of MultiHealthCheckCommand: the probe always targets port 80.
MultiHealthCheckCommand_Port80(s) ==
  <<"CMD-SHELL",
    "curl -f http://localhost:80" \o s.healthCheckConfig.path \o " || exit 1">>

MultiHealthCheckCommand(s) ==
  <<"CMD-SHELL",
    "curl -f http://localhost:" \o ToString(s.port) \o s.healthCheckConfig.path
      \o " || exit 1">>

MultiContainerHealthCheck(s) ==
  [command |-> MultiHealthCheckCommand(s),
   interval |-> intervalSeconds(s.healthCheckConfig),
   timeout |-> timeoutSeconds(s.healthCheckConfig),
   retries |-> retries(s.healthCheckConfig),
   startPeriod |-> startPeriodSeconds(s.healthCheckConfig)]

\* new ecs.FargateTaskDefinition(this, id, {..})
MultiTaskDefinitionProps(s) ==
  [kind |-> "TaskDefinition", scope |-> "this", id |-> MultiTaskDefinitionId(s),
   memoryLimitMiB |-> MultiMemoryLimitMiB(s),
   cpu |-> MultiCpu(s),
   family |-> s.name \o "-task-family",
   runtimePlatform |-> [operatingSystemFamily |-> "LINUX",
                        cpuArchitecture |-> "ARM64"]]

\* taskDefinition.addContainer(id, {..})
MultiContainerProps(p, s) ==
  [kind |-> "Container", scope |-> MultiTaskDefinitionId(s),
   id |-> s.name \o "-container",
   containerName |-> s.name \o "-container",
   image |-> [path |-> s.image.path, file |-> MultiImageFile(s),
              platform |-> "LINUX_ARM64"],
   environment |-> MultiEnvironmentVariables(s),
   logging |-> [logGroup |-> MultiLogGroupId(s), streamPrefix |-> s.name],
   portMappings |-> <<[containerPort |-> s.port]>>,
   dockerLabels |-> MultiDockerLabels(p, s),
   healthCheck |-> MultiContainerHealthCheck(s)]

\* new ecs.FargateService(this, id, {..})
MultiServiceProps(p, s) ==
  [kind |-> "Service", scope |-> "this", id |-> MultiServiceId(p, s),
   assignPublicIp |-> TRUE, cluster |-> p.appName \o "-cluster",
   desiredCount |-> s.desiredCount,
   securityGroups |-> <<MultiSecurityGroupId(s)>>,
   serviceName |-> s.name,
   taskDefinition |-> MultiTaskDefinitionId(s),
   subnetType |-> "PRIVATE_WITH_EGRESS", tags |-> EmptyMap]

\* Mutant of MultiPathPattern: the version is left out of the pattern.
MultiPathPattern_NoVersion(s) == "/" \o s.name \o "/*"

\* Mutant of MultiIngressRule: the rule admits any IPv4 source.
MultiIngressRule_AnyIpv4(p, s) ==
  [peer |-> "0.0.0.0/0", protocol |-> "tcp", port |-> s.port,
   description |-> "Allow traffic from the load balancer"]

MultiIngressRule(p, s) ==
  [peer |-> MultiLoadBalancerSecurityGroup(p), protocol |-> "tcp", port |-> s.port,
   description |-> "Allow traffic from the load balancer"]

MultiPathPattern(s) == "/" \o s.name \o "/" \o s.version \o "/*"

\* Mutant of MultiTargetGroupHealthCheck: the interval is the fixed default.
MultiTargetGroupHealthCheck_FixedInterval(s) ==
  [path |-> s.healthCheckConfig.path,
   interval |-> 30,
   timeout |-> timeoutSeconds(s.healthCheckConfig),
   healthyHttpCodes |-> "200-299"]

MultiTargetGroupHealthCheck(s) ==
  [path |-> s.healthCheckConfig.path,
   interval |-> intervalSeconds(s.healthCheckConfig),
   timeout |-> timeoutSeconds(s.healthCheckConfig),
   healthyHttpCodes |-> "200-299"]

\* The constructs `if (ecsService.autoScalingConfig) { .. }` creates.
MultiAutoScaling(p, s) ==
  IF s.autoScalingConfig = {} THEN <<>>
  ELSE LET a == Val(s.autoScalingConfig)
           target == MultiServiceId(p, s) \o "/TaskCount"
       IN  <<[kind |-> "ScalableTarget", scope |-> MultiServiceId(p, s),
              id |-> "TaskCount", service |-> MultiServiceId(p, s),
              minCapacity |-> a.minCapacity, maxCapacity |-> a.maxCapacity]>>
           \o (IF Truthy(a.targetCpuUtilization)
               THEN <<[kind |-> "ScalingPolicy", scope |-> target,
                       id |-> p.appName \o "-" \o s.name \o "-cpu-scaling",
                       service |-> MultiServiceId(p, s), metric |-> "cpu",
                       targetUtilizationPercent |-> Val(a.targetCpuUtilization)]>>
               ELSE <<>>)
           \o (IF Truthy(a.targetMemoryUtilization)
               THEN <<[kind |-> "ScalingPolicy", scope |-> target,
                       id |-> p.appName \o "-" \o s.name \o "-memory-scaling",
                       service |-> MultiServiceId(p, s), metric |-> "memory",
                       targetUtilizationPercent |-> Val(a.targetMemoryUtilization)]>>
               ELSE <<>>)

(***************************************************************************)
(* Initial states: a constructor is called on some props; nothing exists.  *)
(***************************************************************************)
NoError == [type |-> "none", issues |-> {}, message |-> ""]

\* What a construction leaves: the construct tree, the public arrays and the
\* error thrown, with the region of the scope it ran in.
Outcome ==
  [resources |-> resources, services |-> services,
   taskDefinitions |-> taskDefinitions, thrown |-> thrown, region |-> region]

Init ==
  /\ variant \in {"multi", "single"}
  /\ region = "us-east-1"
  /\ run = 1
  /\ first = [resources |-> <<>>, services |-> <<>>, taskDefinitions |-> <<>>,
              thrown |-> NoError, region |-> region]
  /\ props \in IF variant = "multi" THEN MultiProps ELSE SingleProps
  /\ pc = "validate"
  /\ idx = 1
  /\ resources = <<>>
  /\ services = <<>>
  /\ taskDefinitions = <<>>
  /\ thrown = NoError
  /\ console = {}

(***************************************************************************)
(* MultiServiceECSFargateLoadBalancedConstruct.constructor                 *)
(***************************************************************************)
ecsService == props.ecsServices[idx]

MultiInvalid ==
  [type |-> "Error", issues |-> {},
   message |-> "Invalid input properties for MultiServiceECSFargateLoadBalancedConstruct."]

\* Mutant of MultiValidate: the catch block logs and does not rethrow.
MultiValidate_LogOnly ==
  /\ variant = "multi" /\ pc = "validate"
  /\ console' = MultiServiceECSFargateLoadBalancedConstructPropsSchema(props)
  /\ pc' = "hostedZone"
  /\ UNCHANGED <<variant, props, region, run, first, resources, services, taskDefinitions, idx, thrown>>

\* try { Schema.parse(props) } catch { console.error(..); throw new Error(..) }
MultiValidate ==
  /\ variant = "multi" /\ pc = "validate"
  /\ LET issues == MultiServiceECSFargateLoadBalancedConstructPropsSchema(props)
     IN  IF issues # {}
         THEN /\ pc' = "failed"
              /\ console' = issues
              /\ thrown' = MultiInvalid
              /\ UNCHANGED <<resources, services, taskDefinitions, idx>>
         ELSE /\ pc' = "hostedZone"
              /\ UNCHANGED <<resources, services, taskDefinitions, idx, thrown, console>>
  /\ UNCHANGED <<variant, props, region, run, first>>

\* Mutant of MultiHostedZone: the constructor goes on to the cluster and
\* never creates the certificate.
MultiHostedZone_ThenCluster ==
  /\ variant = "multi" /\ pc = "hostedZone"
  /\ New([kind |-> "HostedZoneImport", scope |-> "this",
          id |-> props.appName \o "-hosted-zone-lookup",
          hostedZoneId |-> props.hostedZoneId, zoneName |-> props.domainName],
         "cluster")
  /\ UNCHANGED <<variant, props, region, run, first>>

MultiHostedZone ==
  /\ variant = "multi" /\ pc = "hostedZone"
  /\ New([kind |-> "HostedZoneImport", scope |-> "this",
          id |-> props.appName \o "-hosted-zone-lookup",
          hostedZoneId |-> props.hostedZoneId, zoneName |-> props.domainName],
         "certificate")
  /\ UNCHANGED <<variant, props, region, run, first>>

MultiCertificate ==
  /\ variant = "multi" /\ pc = "certificate"
  /\ New([kind |-> "Certificate", scope |-> "this", id |-> MultiCertificateId(props),
          domainName |-> MultiCertificateDomainName(props),
          validation |-> props.appName \o "-hosted-zone-lookup",
          subjectAlternativeNames |->
            <<props.apiSubdomainName \o "." \o props.domainName>>],
         "cluster")
  /\ UNCHANGED <<variant, props, region, run, first>>

MultiCluster ==
  /\ variant = "multi" /\ pc = "cluster"
  /\ New([kind |-> "Cluster", scope |-> "this", id |-> props.appName \o "-cluster",
          vpc |-> props.vpc, clusterName |-> MultiClusterName(props)],
         "loadBalancer")
  /\ UNCHANGED <<variant, props, region, run, first>>

MultiLoadBalancer ==
  /\ variant = "multi" /\ pc = "loadBalancer"
  /\ New([kind |-> "LoadBalancer", scope |-> "this", id |-> MultiLoadBalancerId(props),
          vpc |-> props.vpc, internetFacing |-> TRUE,
          loadBalancerName |-> MultiLoadBalancerId(props),
          subnetType |-> "PUBLIC",
          securityGroup |-> MultiLoadBalancerSecurityGroup(props),
          tags |-> EmptyMap],
         "ARecord")
  /\ UNCHANGED <<variant, props, region, run, first>>

MultiARecord ==
  /\ variant = "multi" /\ pc = "ARecord"
  /\ New([kind |-> "ARecord", scope |-> "this",
          id |-> props.appName \o "-alias-record-" \o region,
          zone |-> props.appName \o "-hosted-zone-lookup",
          target |-> MultiLoadBalancerId(props),
          recordName |-> props.apiSubdomainName \o "." \o props.domainName],
         "arnParameter")
  /\ UNCHANGED <<variant, props, region, run, first>>

MultiArnParameter ==
  /\ variant = "multi" /\ pc = "arnParameter"
  /\ New([kind |-> "StringParameter", scope |-> "this",
          id |-> props.appName \o "-" \o region \o "-load-balancer-arn",
          parameterName |-> "/" \o props.appName \o "/load-balancer-arn",
          stringValue |-> MultiLoadBalancerId(props) \o ".loadBalancerArn"],
         "securityGroupIdParameter")
  /\ UNCHANGED <<variant, props, region, run, first>>

MultiSecurityGroupIdParameter ==
  /\ variant = "multi" /\ pc = "securityGroupIdParameter"
  /\ New([kind |-> "StringParameter", scope |-> "this",
          id |-> props.appName \o "-" \o region \o "-load-balancer-security-group-id",
          parameterName |-> "/" \o props.appName \o "/load-balancer-security-group-id",
          stringValue |-> MultiLoadBalancerSecurityGroup(props) \o ".securityGroupId"],
         "tagLoadBalancer")
  /\ UNCHANGED <<variant, props, region, run, first>>

\* cdk.Tags.of(this.loadBalancer).add("name", ..)
MultiTagLoadBalancer ==
  /\ variant = "multi" /\ pc = "tagLoadBalancer"
  /\ resources' =
       [j \in 1..Len(resources) |->
          IF resources[j].kind = "LoadBalancer"
          THEN [resources[j] EXCEPT
                  !.tags = ("name" :> (props.appName \o "-load-balancer")) @@ @]
          ELSE resources[j]]
  /\ pc' = "httpsListener"
  /\ UNCHANGED <<variant, props, region, run, first, services, taskDefinitions, idx, thrown, console>>

MultiHttpsListener ==
  /\ variant = "multi" /\ pc = "httpsListener"
  /\ New([kind |-> "Listener", scope |-> MultiLoadBalancerId(props),
          id |-> MultiHttpsListenerId(props), port |-> 443,
          certificates |-> <<MultiCertificateId(props)>>,
          sslPolicy |-> "RECOMMENDED_TLS",
          defaultAction |-> [type |-> "fixed-response", statusCode |-> 404,
                             contentType |-> "application/json",
                             messageBody |-> "{\"message\":\"Not Found\"}"]],
         "httpListener")
  /\ UNCHANGED <<variant, props, region, run, first>>

MultiHttpListener ==
  /\ variant = "multi" /\ pc = "httpListener"
  /\ New([kind |-> "Listener", scope |-> MultiLoadBalancerId(props),
          id |-> props.appName \o "-http-listener", port |-> 80,
          defaultAction |-> [type |-> "redirect", protocol |-> "HTTPS",
                             port |-> "443"]],
         IF idx <= Len(props.ecsServices) THEN "taskDefinition" ELSE "done")
  /\ UNCHANGED <<variant, props, region, run, first>>

MultiTaskDefinition ==
  /\ variant = "multi" /\ pc = "taskDefinition"
  /\ New(MultiTaskDefinitionProps(ecsService) @@ [index |-> idx], "logGroup")
  /\ UNCHANGED <<variant, props, region, run, first>>

MultiLogGroup ==
  /\ variant = "multi" /\ pc = "logGroup"
  /\ New([kind |-> "LogGroup", scope |-> "this", id |-> MultiLogGroupId(ecsService),
          index |-> idx, props |-> MultiLogGroupProps(ecsService)],
         "addContainer")
  /\ UNCHANGED <<variant, props, region, run, first>>

\* Mutant of MultiAddContainer: the auto-injected keys are written into the
\* service's own envVariables object.
MultiAddContainer_MergesInPlace ==
  /\ variant = "multi" /\ pc = "addContainer"
  /\ New(MultiContainerProps(props, ecsService) @@ [index |-> idx], "securityGroup")
  /\ props' = [props EXCEPT !.ecsServices[idx].envVariables =
                              MultiEnvironmentVariables(ecsService)]
  /\ UNCHANGED <<variant, region, run, first>>

MultiAddContainer ==
  /\ variant = "multi" /\ pc = "addContainer"
  /\ New(MultiContainerProps(props, ecsService) @@ [index |-> idx], "securityGroup")
  /\ UNCHANGED <<variant, props, region, run, first>>

MultiSecurityGroup ==
  /\ variant = "multi" /\ pc = "securityGroup"
  /\ New([kind |-> "SecurityGroup", scope |-> "this",
          id |-> MultiSecurityGroupId(ecsService), index |-> idx,
          allowAllOutbound |-> TRUE,
          description |-> "Security group for the ECS service " \o ecsService.name,
          vpc |-> props.vpc, ingress |-> <<>>],
         "addIngressRule")
  /\ UNCHANGED <<variant, props, region, run, first>>

MultiAddIngressRule ==
  /\ variant = "multi" /\ pc = "addIngressRule"
  /\ resources' =
       [j \in 1..Len(resources) |->
          IF resources[j].kind = "SecurityGroup" /\ resources[j].index = idx
          THEN [resources[j] EXCEPT
                  !.ingress = Append(@, MultiIngressRule(props, ecsService))]
          ELSE resources[j]]
  /\ pc' = "service"
  /\ UNCHANGED <<variant, props, region, run, first, services, taskDefinitions, idx, thrown, console>>

MultiService ==
  /\ variant = "multi" /\ pc = "service"
  /\ New(MultiServiceProps(props, ecsService) @@ [index |-> idx], "addTargets")
  /\ UNCHANGED <<variant, props, region, run, first>>

MultiAddTargets ==
  /\ variant = "multi" /\ pc = "addTargets"
  /\ New([kind |-> "TargetGroup", scope |-> MultiHttpsListenerId(props),
          id |-> props.appName \o "-" \o ecsService.name \o "-tg", index |-> idx,
          port |-> ecsService.port,
          targets |-> <<MultiServiceId(props, ecsService)>>,
          targetGroupName |-> props.appName \o "-" \o ecsService.name \o "-tg",
          protocol |-> "HTTP",
          conditions |-> <<MultiPathPattern(ecsService)>>,
          healthCheck |-> MultiTargetGroupHealthCheck(ecsService),
          priority |-> ecsService.priority],
         "push")
  /\ UNCHANGED <<variant, props, region, run, first>>

\* Mutant of MultiPush: the task definition is put at the front of its array.
MultiPush_Unshift ==
  /\ variant = "multi" /\ pc = "push"
  /\ services' = Append(services, MultiServiceId(props, ecsService))
  /\ taskDefinitions' = <<MultiTaskDefinitionId(ecsService)>> \o taskDefinitions
  /\ pc' = "autoScaling"
  /\ UNCHANGED <<variant, props, region, run, first, resources, idx, thrown, console>>

\* this.services.push(service); this.taskDefinitions.push(taskDefinition)
MultiPush ==
  /\ variant = "multi" /\ pc = "push"
  /\ services' = Append(services, MultiServiceId(props, ecsService))
  /\ taskDefinitions' = Append(taskDefinitions, MultiTaskDefinitionId(ecsService))
  /\ pc' = "autoScaling"
  /\ UNCHANGED <<variant, props, region, run, first, resources, idx, thrown, console>>

\* The optional autoscaling, the three tags, and the loop's next iteration.
MultiAutoScalingAndTags ==
  /\ variant = "multi" /\ pc = "autoScaling"
  /\ resources' =
       [j \in 1..Len(resources) |->
          IF resources[j].kind = "Service" /\ resources[j].index = idx
          THEN [resources[j] EXCEPT
                  !.tags = [AppName |-> props.appName, Environment |-> props.tagEnv,
                            ServiceName |-> ecsService.name]]
          ELSE resources[j]]
       \o MultiAutoScaling(props, ecsService)
  /\ idx' = idx + 1
  /\ pc' = IF idx + 1 <= Len(props.ecsServices) THEN "taskDefinition" ELSE "done"
  /\ UNCHANGED <<variant, props, region, run, first, services, taskDefinitions, thrown, console>>

MultiNext ==
  \/ MultiValidate \/ MultiHostedZone \/ MultiCertificate \/ MultiCluster
  \/ MultiLoadBalancer \/ MultiARecord \/ MultiArnParameter
  \/ MultiSecurityGroupIdParameter \/ MultiTagLoadBalancer
  \/ MultiHttpsListener \/ MultiHttpListener
  \/ MultiTaskDefinition \/ MultiLogGroup \/ MultiAddContainer
  \/ MultiSecurityGroup \/ MultiAddIngressRule \/ MultiService
  \/ MultiAddTargets \/ MultiPush \/ MultiAutoScalingAndTags

(***************************************************************************)
(* SingleServicePrivateECSFargateConstruct: the derived values.            *)
(***************************************************************************)
SingleClusterName(p) == p.appName \o "-cluster"
SingleTaskDefinitionId(s) == s.name \o "-task-definition"
SingleLogGroupId(s) == s.name \o "-log-group"
SingleSecurityGroupId(s) == s.name \o "-security-group"
SingleServiceId(p, s) == p.appName \o "-" \o s.name \o "-service"

SingleMemoryLimitMiB(s) ==
  NumOr(IF s.fargateConfig = {} THEN {} ELSE Val(s.fargateConfig).memoryLimitMiB, 1024)
\* Mutant of SingleCpu: the default is 256.
SingleCpu_Default256(s) ==
  NumOr(IF s.fargateConfig = {} THEN {} ELSE Val(s.fargateConfig).cpu, 256)

SingleCpu(s) ==
  NumOr(IF s.fargateConfig = {} THEN {} ELSE Val(s.fargateConfig).cpu, 512)

\* Mutant of SingleLogGroupProps: the default retention is one week.
SingleLogGroupProps_OneWeek(s) ==
  ObjOr(s.logGroupConfig,
        [logGroupName |-> s.name \o "-log-group",
         removalPolicy |-> "destroy", retention |-> "ONE_WEEK"])

SingleLogGroupProps(s) ==
  ObjOr(s.logGroupConfig,
        [logGroupName |-> s.name \o "-log-group",
         removalPolicy |-> "destroy", retention |-> "TWO_WEEKS"])

SingleImageFile(s) == StrOr(s.image.name, "Dockerfile")

SingleEnvironmentVariables(s) ==
  Spread([PORT |-> ToString(s.port), SERVICE_NAME |-> s.name,
          API_VERSION |-> s.version],
         s.envVariables)

SingleDockerLabels(p, s) ==
  ObjOr(s.image.labels,
        [cluster |-> SingleClusterName(p), service |-> s.name, version |-> s.version])

SingleHealthCheckCommand(s) ==
  <<"CMD-SHELL",
    "curl -f http://localhost:" \o ToString(s.port) \o s.healthCheckPath
      \o " || exit 1">>

SingleContainerHealthCheck(s) ==
  [command |-> SingleHealthCheckCommand(s),
   interval |-> 30, timeout |-> 5, retries |-> 3, startPeriod |-> 30]

\* new ecs.FargateTaskDefinition(this, id, {..})
SingleTaskDefinitionProps(s) ==
  [kind |-> "TaskDefinition", scope |-> "this", id |-> SingleTaskDefinitionId(s),
   memoryLimitMiB |-> SingleMemoryLimitMiB(s),
   cpu |-> SingleCpu(s),
   family |-> s.name \o "-task-family",
   runtimePlatform |-> [operatingSystemFamily |-> "LINUX",
                        cpuArchitecture |-> "ARM64"]]

\* Mutant of SingleContainerProps: the log stream prefix is the container's
\* name, not the service's.
SingleContainerProps_StreamPrefix(p, s) ==
  [kind |-> "Container", scope |-> SingleTaskDefinitionId(s),
   id |-> s.name \o "-container",
   containerName |-> s.name \o "-container",
   image |-> [path |-> s.image.path, file |-> SingleImageFile(s),
              platform |-> "LINUX_ARM64"],
   environment |-> SingleEnvironmentVariables(s),
   logging |-> [logGroup |-> SingleLogGroupId(s),
                streamPrefix |-> s.name \o "-container"],
   portMappings |-> <<[containerPort |-> s.port]>>,
   dockerLabels |-> SingleDockerLabels(p, s),
   healthCheck |-> SingleContainerHealthCheck(s)]

\* this.taskDefinition.addContainer(id, {..})
SingleContainerProps(p, s) ==
  [kind |-> "Container", scope |-> SingleTaskDefinitionId(s),
   id |-> s.name \o "-container",
   containerName |-> s.name \o "-container",
   image |-> [path |-> s.image.path, file |-> SingleImageFile(s),
              platform |-> "LINUX_ARM64"],
   environment |-> SingleEnvironmentVariables(s),
   logging |-> [logGroup |-> SingleLogGroupId(s), streamPrefix |-> s.name],
   portMappings |-> <<[containerPort |-> s.port]>>,
   dockerLabels |-> SingleDockerLabels(p, s),
   healthCheck |-> SingleContainerHealthCheck(s)]

\* new ecs.FargateService(this, id, {..})
SingleServiceProps(p, s) ==
  [kind |-> "Service", scope |-> "this", id |-> SingleServiceId(p, s),
   assignPublicIp |-> FALSE, cluster |-> p.appName \o "-cluster",
   desiredCount |-> s.desiredCount,
   securityGroups |-> <<SingleSecurityGroupId(s)>>,
   serviceName |-> s.name,
   taskDefinition |-> SingleTaskDefinitionId(s),
   subnetType |-> "PRIVATE_WITH_EGRESS", tags |-> EmptyMap]

(***************************************************************************)
(* SingleServicePrivateECSFargateConstruct.constructor                     *)
(***************************************************************************)
ZodError(issues) == [type |-> "ZodError", issues |-> issues, message |-> ""]

\* SingleServicePrivateECSFargateConstructPropsSchema.parse(props)
SingleValidate ==
  /\ variant = "single" /\ pc = "validate"
  /\ LET issues == SingleServicePrivateECSFargateConstructPropsSchema(props)
     IN  IF issues # {}
         THEN Throw(ZodError(issues))
         ELSE /\ pc' = "cluster"
              /\ UNCHANGED <<resources, services, taskDefinitions, idx, thrown, console>>
  /\ UNCHANGED <<variant, props, region, run, first>>

SingleCluster ==
  /\ variant = "single" /\ pc = "cluster"
  /\ New([kind |-> "Cluster", scope |-> "this", id |-> props.appName \o "-cluster",
          vpc |-> props.vpc, clusterName |-> SingleClusterName(props)],
         "validateService")
  /\ UNCHANGED <<variant, props, region, run, first>>

\* ECSServicePropsSchema.parse(ecsService)
SingleValidateService ==
  /\ variant = "single" /\ pc = "validateService"
  /\ LET issues == ECSServicePropsSchema(props.service)
     IN  IF issues # {}
         THEN Throw(ZodError(issues))
         ELSE /\ pc' = "taskDefinition"
              /\ UNCHANGED <<resources, services, taskDefinitions, idx, thrown, console>>
  /\ UNCHANGED <<variant, props, region, run, first>>

SingleTaskDefinition ==
  /\ variant = "single" /\ pc = "taskDefinition"
  /\ New(SingleTaskDefinitionProps(props.service) @@ [index |-> 1], "logGroup")
  /\ UNCHANGED <<variant, props, region, run, first>>

\* Mutant of SingleLogGroup: the log group is created only when configured.
SingleLogGroup_OnlyIfConfigured ==
  /\ variant = "single" /\ pc = "logGroup"
  /\ IF props.service.logGroupConfig = {}
     THEN /\ pc' = "addContainer"
          /\ UNCHANGED <<resources, services, taskDefinitions, idx, thrown, console>>
     ELSE New([kind |-> "LogGroup", scope |-> "this",
               id |-> SingleLogGroupId(props.service), index |-> 1,
               props |-> SingleLogGroupProps(props.service)],
              "addContainer")
  /\ UNCHANGED <<variant, props, region, run, first>>

SingleLogGroup ==
  /\ variant = "single" /\ pc = "logGroup"
  /\ New([kind |-> "LogGroup", scope |-> "this",
          id |-> SingleLogGroupId(props.service), index |-> 1,
          props |-> SingleLogGroupProps(props.service)],
         "addContainer")
  /\ UNCHANGED <<variant, props, region, run, first>>

SingleAddContainer ==
  /\ variant = "single" /\ pc = "addContainer"
  /\ New(SingleContainerProps(props, props.service) @@ [index |-> 1],
         "securityGroup")
  /\ UNCHANGED <<variant, props, region, run, first>>

SingleIngressRule(p, s) ==
  [peer |-> p.vpc.vpcCidrBlock, protocol |-> "tcp", port |-> s.port,
   description |-> "Allow inbound traffic on port "
      \o ToString(s.port) \o " from within the VPC"]

SingleSecurityGroup ==
  /\ variant = "single" /\ pc = "securityGroup"
  /\ New([kind |-> "SecurityGroup", scope |-> "this",
          id |-> SingleSecurityGroupId(props.service), index |-> 1,
          allowAllOutbound |-> TRUE,
          description |-> "Security group for the ECS service " \o props.service.name,
          vpc |-> props.vpc, ingress |-> <<>>],
         "addIngressRule")
  /\ UNCHANGED <<variant, props, region, run, first>>

SingleAddIngressRule ==
  /\ variant = "single" /\ pc = "addIngressRule"
  /\ resources' =
       [j \in 1..Len(resources) |->
          IF resources[j].kind = "SecurityGroup"
          THEN [resources[j] EXCEPT
                  !.ingress = Append(@, SingleIngressRule(props, props.service))]
          ELSE resources[j]]
  /\ pc' = "service"
  /\ UNCHANGED <<variant, props, region, run, first, services, taskDefinitions, idx, thrown, console>>

SingleFargateService ==
  /\ variant = "single" /\ pc = "service"
  /\ New(SingleServiceProps(props, props.service) @@ [index |-> 1], "done")
  /\ UNCHANGED <<variant, props, region, run, first>>

SingleNext ==
  \/ SingleValidate \/ SingleCluster \/ SingleValidateService
  \/ SingleTaskDefinition \/ SingleLogGroup \/ SingleAddContainer
  \/ SingleSecurityGroup \/ SingleAddIngressRule \/ SingleFargateService

(***************************************************************************)
(* The same props are handed to the same constructor a second time, in a   *)
(* fresh scope (of a stack in any region): nothing of the first            *)
(* construction is in the new scope.                                       *)
(***************************************************************************)
ConstructAgain ==
  /\ run = 1 /\ pc \in {"done", "failed"}
  /\ first' = Outcome
  /\ run' = 2
  /\ region' \in Regions
  /\ pc' = "validate"
  /\ idx' = 1
  /\ resources' = <<>>
  /\ services' = <<>>
  /\ taskDefinitions' = <<>>
  /\ thrown' = NoError
  /\ console' = {}
  /\ UNCHANGED <<variant, props>>

Next == MultiNext \/ SingleNext \/ ConstructAgain

Spec == Init /\ [][Next]_vars

(***************************************************************************)
(* AuroraServerlessV2Construct.constructor.  The props are never           *)
(* validated; the constructor is straight-line code with one branch, on    *)
(* props.createCredentials.                                                *)
(***************************************************************************)
AuroraProps ==
  {[appName |-> a, tagEnv |-> t, auroraPort |-> port, vpc |-> v,
    createCredentials |-> c, databaseName |-> d] :
      a \in {"app", "shop"}, t \in {"dev", "prod"}, port \in {5432, 3306},
      v \in Vpcs, c \in {{}, {TRUE}, {FALSE}}, d \in {{}, {""}, {"orders"}}}

isProd(p) == p.tagEnv = "prod"

AuroraSecurityGroupId(p) == p.appName \o "-" \o p.tagEnv \o "-aurora-sg"
AuroraSecretName(p) == p.appName \o "-aurora-postgres-db-credentials"
AuroraClusterId(p) == p.appName \o "-" \o p.tagEnv \o "-aurora-db-cluster"

\* Mutant of AuroraCreatesCredentials: only an explicit false loads the
\* existing secret.
AuroraCreatesCredentials_UnlessFalse(p) == p.createCredentials # {FALSE}

\* if (props.createCredentials)
AuroraCreatesCredentials(p) == p.createCredentials = {TRUE}

\* The construct this.dbCredentials refers to.
dbCredentials(p) ==
  IF AuroraCreatesCredentials(p)
  THEN [kind |-> "Secret", scope |-> "this",
        id |-> p.appName \o "-aurora-credentials",
        secretName |-> AuroraSecretName(p),
        description |-> "Credentials for " \o p.appName
                           \o " Aurora PostgreSQL database",
        generateSecretString |->
          [secretStringTemplate |-> "{\"username\":\"postgres\"}",
           generateStringKey |-> "password", excludePunctuation |-> TRUE]]
  ELSE [kind |-> "SecretImport", scope |-> "this",
        id |-> AuroraSecretName(p), secretName |-> AuroraSecretName(p)]

dbName(p) ==
  StrOr(p.databaseName, p.appName \o "_" \o p.tagEnv \o "_aurora_db")

InitAurora ==
  /\ variant = "aurora"
  /\ region = "us-east-1"
  /\ run = 1
  /\ first = [resources |-> <<>>, services |-> <<>>, taskDefinitions |-> <<>>,
              thrown |-> NoError, region |-> region]
  /\ props \in AuroraProps
  /\ pc = "securityGroup"
  /\ idx = 1
  /\ resources = <<>>
  /\ services = <<>>
  /\ taskDefinitions = <<>>
  /\ thrown = NoError
  /\ console = {}

AuroraSecurityGroup ==
  /\ variant = "aurora" /\ pc = "securityGroup"
  /\ New([kind |-> "SecurityGroup", scope |-> "this",
          id |-> AuroraSecurityGroupId(props),
          description |-> "Allow traffic to Aurora Serverless v2 instance",
          securityGroupName |-> props.appName \o "_" \o props.tagEnv \o "_aurora_sg",
          vpc |-> props.vpc, ingress |-> <<>>],
         "addIngressRule")
  /\ UNCHANGED <<variant, props, region, run, first>>

AuroraAddIngressRule ==
  /\ variant = "aurora" /\ pc = "addIngressRule"
  /\ resources' =
       [j \in 1..Len(resources) |->
          IF resources[j].kind = "SecurityGroup"
          THEN [resources[j] EXCEPT
                  !.ingress = Append(@,
                    [peer |-> props.vpc.vpcCidrBlock, protocol |-> "tcp",
                     port |-> props.auroraPort,
                     description |-> "Allow PostgreSQL traffic from within the VPC"])]
          ELSE resources[j]]
  /\ pc' = "credentials"
  /\ UNCHANGED <<variant, props, region, run, first, services, taskDefinitions, idx, thrown, console>>

AuroraCredentials ==
  /\ variant = "aurora" /\ pc = "credentials"
  /\ New(dbCredentials(props), "dbCluster")
  /\ UNCHANGED <<variant, props, region, run, first>>

AuroraDatabaseCluster ==
  /\ variant = "aurora" /\ pc = "dbCluster"
  /\ New([kind |-> "DatabaseCluster", scope |-> "this", id |-> AuroraClusterId(props),
          backupRetentionDays |-> IF isProd(props) THEN 30 ELSE 7,
          clusterIdentifier |-> AuroraClusterId(props),
          credentials |-> dbCredentials(props).id,
          defaultDatabaseName |-> dbName(props),
          enableDataApi |-> TRUE,
          engine |-> "aurora-postgres-16.2",
          readers |-> <<props.appName \o "-" \o props.tagEnv \o "-aurora-db-reader">>,
          removalPolicy |-> IF isProd(props) THEN "retain" ELSE "destroy",
          securityGroups |-> <<AuroraSecurityGroupId(props)>>,
          serverlessV2MaxCapacity |-> IF isProd(props) THEN "8" ELSE "4",
          serverlessV2MinCapacity |-> IF isProd(props) THEN "1" ELSE "0.5",
          storageEncrypted |-> TRUE,
          vpc |-> props.vpc, subnetType |-> "PRIVATE_ISOLATED",
          writer |-> props.appName \o "-" \o props.tagEnv \o "-aurora-db-writer"],
         "writerEndpoint")
  /\ UNCHANGED <<variant, props, region, run, first>>

AuroraWriterEndpointParameter ==
  /\ variant = "aurora" /\ pc = "writerEndpoint"
  /\ New([kind |-> "StringParameter", scope |-> "this",
          id |-> props.appName \o "-aurora-writer-endpoint-ssm",
          parameterName |-> "/" \o props.appName \o "/aurora-writer-endpoint",
          stringValue |-> AuroraClusterId(props) \o ".clusterEndpoint.hostname"],
         "readerEndpoint")
  /\ UNCHANGED <<variant, props, region, run, first>>

AuroraReaderEndpointParameter ==
  /\ variant = "aurora" /\ pc = "readerEndpoint"
  /\ New([kind |-> "StringParameter", scope |-> "this",
          id |-> props.appName \o "-aurora-reader-endpoint-ssm",
          parameterName |-> "/" \o props.appName \o "/aurora-reader-endpoint",
          stringValue |-> AuroraClusterId(props) \o ".clusterReadEndpoint.hostname"],
         "done")
  /\ UNCHANGED <<variant, props, region, run, first>>

AuroraNext ==
  \/ AuroraSecurityGroup \/ AuroraAddIngressRule \/ AuroraCredentials
  \/ AuroraDatabaseCluster \/ AuroraWriterEndpointParameter
  \/ AuroraReaderEndpointParameter

SpecAurora == InitAurora /\ [][AuroraNext]_vars

(***************************************************************************)
(* Vocabulary of the properties.                                           *)
(***************************************************************************)
\* The validation verdict on the props of the running constructor.
PropsIssues ==
  IF variant = "multi"
  THEN MultiServiceECSFargateLoadBalancedConstructPropsSchema(props)
  ELSE SingleServicePrivateECSFargateConstructPropsSchema(props)

\* The issues the failed validation reported (logged by the multi-service
\* constructor, carried by the error of the single-service one).
ReportedIssues == IF variant = "multi" THEN console ELSE thrown.issues

ServiceIndexes == IF variant = "multi" THEN 1..Len(props.ecsServices) ELSE {1}
ServiceAt(i) == IF variant = "multi" THEN props.ecsServices[i] ELSE props.service
PortIssuePath(i) ==
  IF variant = "multi" THEN "ecsServices[" \o ToString(i) \o "].port"
  ELSE "service.port"

Resources == {resources[j] : j \in 1..Len(resources)}
Containers == {r \in Resources : r.kind = "Container"}
TaskDefs == {r \in Resources : r.kind = "TaskDefinition"}
AutoKeys == {"PORT", "SERVICE_NAME", "API_VERSION"}

\* The health-check timing fields a service supplies (none in the
\* single-service props, which carry a path only).
TimingOf(i) ==
  IF variant = "multi"
  THEN LET h == ServiceAt(i).healthCheckConfig
       IN  [interval |-> h.intervalSeconds, timeout |-> h.timeoutSeconds,
            retries |-> h.retries, startPeriod |-> h.startPeriodSeconds]
  ELSE [interval |-> {}, timeout |-> {}, retries |-> {}, startPeriod |-> {}]
NoTiming == [interval |-> {}, timeout |-> {}, retries |-> {}, startPeriod |-> {}]

OptCpuOf(i) ==
  LET f == ServiceAt(i).fargateConfig IN IF f = {} THEN {} ELSE Val(f).cpu
OptMemoryOf(i) ==
  LET f == ServiceAt(i).fargateConfig IN IF f = {} THEN {} ELSE Val(f).memoryLimitMiB

(***************************************************************************)
(* C1.  If validation of the props fails, the constructor aborts before    *)
(* any resource is created: props with a validation issue never have a     *)
(* resource, in either variant, and in the single-service variant the      *)
(* second validation (after the cluster exists) never fails, so a          *)
(* validation error is only ever thrown with nothing created.              *)
(***************************************************************************)
C1_ValidationFailureCreatesNothing ==
  /\ PropsIssues # {} =>
       /\ resources = <<>> /\ services = <<>> /\ taskDefinitions = <<>>
       /\ pc \in {"validate", "failed"}
  /\ (pc = "failed" /\ thrown.type = "ZodError") => resources = <<>>
  /\ (pc = "failed" /\ thrown = MultiInvalid) => resources = <<>>

C1_Witness ==
  /\ pc = "failed" /\ PropsIssues # {} /\ ReportedIssues # {}
  /\ resources = <<>>

(***************************************************************************)
(* C2.  A multi-service topology holding two services with the same name   *)
(* is rejected with no partial plan: once the constructor has returned or  *)
(* thrown, it has thrown and no construct of that topology exists.         *)
(***************************************************************************)
HasDuplicateNames ==
  /\ variant = "multi"
  /\ \E i, j \in 1..Len(props.ecsServices) :
       i # j /\ props.ecsServices[i].name = props.ecsServices[j].name

C2_DuplicateNameRejectedWithoutPartialPlan ==
  (HasDuplicateNames /\ pc \in {"done", "failed"}) =>
    (pc = "failed" /\ resources = <<>> /\ services = <<>>)

(***************************************************************************)
(* C3.  Port boundary: in both variants a port below 1 or above 65535      *)
(* (0 and 65536 included) fails validation with an issue on that port,     *)
(* and a port within 1..65535 (1 and 65535 included) raises no issue on    *)
(* that port.                                                              *)
(***************************************************************************)
C3_PortBoundary ==
  pc # "validate" =>
    \A i \in ServiceIndexes :
      LET port == ServiceAt(i).port
      IN  /\ (port < 1 \/ port > 65535) =>
               (pc = "failed" /\ PortIssuePath(i) \in ReportedIssues)
          /\ (port >= 1 /\ port <= 65535) => PortIssuePath(i) \notin ReportedIssues
          /\ (port \in {1, 65535} /\ PropsIssues \subseteq {PortIssuePath(i)}) =>
               (thrown.type # "ZodError" /\ thrown # MultiInvalid)

C3_Witness ==
  /\ variant = "single" /\ pc = "done" /\ props.service.port = 65535

(***************************************************************************)
(* C4.  Environment merge, in both variants: the container environment     *)
(* holds the three auto keys and every user key; a user key keeps the      *)
(* user's value (also when it is an auto key), and an auto key the user    *)
(* did not supply has the value computed from the service.                 *)
(***************************************************************************)
C4_EnvironmentMerge ==
  \A c \in Containers :
    LET s == ServiceAt(c.index)
        env == c.environment
    IN  /\ DOMAIN env = AutoKeys \cup DOMAIN s.envVariables
        /\ \A k \in DOMAIN s.envVariables : env[k] = s.envVariables[k]
        /\ "PORT" \notin DOMAIN s.envVariables => env["PORT"] = ToString(s.port)
        /\ "SERVICE_NAME" \notin DOMAIN s.envVariables =>
             env["SERVICE_NAME"] = s.name
        /\ "API_VERSION" \notin DOMAIN s.envVariables =>
             env["API_VERSION"] = s.version

C4_Witness ==
  \E c \in Containers :
    /\ ServiceAt(c.index).port = 8080
    /\ DOMAIN ServiceAt(c.index).envVariables = {"PORT"}
    /\ ServiceAt(c.index).envVariables["PORT"] = "9999"
    /\ c.environment["PORT"] = "9999"
    /\ c.environment["SERVICE_NAME"] = "a"

(***************************************************************************)
(* C5.  A supplied value that passes validation takes precedence over the  *)
(* built-in default: the resolved interval, timeout, retries, start period *)
(* and image file equal the supplied value whenever one is supplied.       *)
(***************************************************************************)
C5_ExplicitValueTakesPrecedence ==
  \A c \in Containers :
    LET t == TimingOf(c.index)
        name == ServiceAt(c.index).image.name
    IN  /\ Has(t.interval) => c.healthCheck.interval = Val(t.interval)
        /\ Has(t.timeout) => c.healthCheck.timeout = Val(t.timeout)
        /\ Has(t.retries) => c.healthCheck.retries = Val(t.retries)
        /\ Has(t.startPeriod) => c.healthCheck.startPeriod = Val(t.startPeriod)
        /\ Has(name) => c.image.file = Val(name)

(***************************************************************************)
(* C6.  A service that supplies no health-check timing (every service of   *)
(* the single-service variant) gets the container health check             *)
(* interval 30, timeout 5, retries 3, start period 30.                     *)
(***************************************************************************)
C6_OmittedTimingGetsDefaults ==
  \A c \in Containers :
    TimingOf(c.index) = NoTiming =>
      /\ c.healthCheck.interval = 30
      /\ c.healthCheck.timeout = 5
      /\ c.healthCheck.retries = 3
      /\ c.healthCheck.startPeriod = 30

C6_Witness ==
  /\ variant = "multi" /\ pc = "done"
  /\ \E c \in Containers :
       TimingOf(c.index) = NoTiming /\ c.healthCheck.timeout = 5

(***************************************************************************)
(* C7.  A service that supplies only the interval keeps the supplied       *)
(* interval and gets timeout 5, retries 3, start period 30.                *)
(***************************************************************************)
C7_OnlyIntervalKeepsItAndDefaultsTheRest ==
  \A c \in Containers :
    LET t == TimingOf(c.index)
    IN  (Has(t.interval) /\ t.timeout = {} /\ t.retries = {} /\ t.startPeriod = {})
        => /\ c.healthCheck.interval = Val(t.interval)
           /\ c.healthCheck.timeout = 5
           /\ c.healthCheck.retries = 3
           /\ c.healthCheck.startPeriod = 30

(***************************************************************************)
(* C8 as stated.  Defaults are granted per block: a health-check block     *)
(* that gives only the interval does not inherit timeout 5, retries 3 and  *)
(* start period 30, and a compute-size block that gives only the cpu does  *)
(* not inherit memory 1024.                                                *)
(***************************************************************************)
C8_PartialBlockInheritsNoDefault ==
  /\ \A c \in Containers :
       LET t == TimingOf(c.index)
       IN  (Has(t.interval) /\ t.timeout = {} /\ t.retries = {}
            /\ t.startPeriod = {})
           => /\ c.healthCheck.timeout # 5
              /\ c.healthCheck.retries # 3
              /\ c.healthCheck.startPeriod # 30
  /\ \A d \in TaskDefs :
       (Has(OptCpuOf(d.index)) /\ OptMemoryOf(d.index) = {}
        /\ ServiceAt(d.index).fargateConfig # {})
       => d.memoryLimitMiB # 1024

(***************************************************************************)
(* C8 as amended.  Defaults are granted per field: every health-check      *)
(* timing field and every compute-size field that is left out receives     *)
(* its built-in default (interval 30, timeout 5, retries 3, start period   *)
(* 30, cpu 512, memory 1024), whether the block around it is omitted or    *)
(* present with other fields supplied.                                     *)
(***************************************************************************)
C8_DefaultsPerField ==
  /\ \A c \in Containers :
       LET t == TimingOf(c.index)
       IN  /\ t.interval = {} => c.healthCheck.interval = 30
           /\ t.timeout = {} => c.healthCheck.timeout = 5
           /\ t.retries = {} => c.healthCheck.retries = 3
           /\ t.startPeriod = {} => c.healthCheck.startPeriod = 30
  /\ \A d \in TaskDefs :
       /\ OptCpuOf(d.index) = {} => d.cpu = 512
       /\ OptMemoryOf(d.index) = {} => d.memoryLimitMiB = 1024

C8_Witness ==
  /\ pc = "done"
  /\ \E d \in TaskDefs :
       /\ ServiceAt(d.index).fargateConfig # {}
       /\ Has(OptCpuOf(d.index)) /\ OptMemoryOf(d.index) = {}
       /\ d.cpu = 256 /\ d.memoryLimitMiB = 1024

(***************************************************************************)
(* C9.  Autoscaling is attached conditionally.  For every service whose    *)
(* loop iteration is over: without an autoscaling block it has no          *)
(* scalable target and no policy; with one it has exactly one scalable     *)
(* target carrying the given min/max, a cpu policy iff                     *)
(* targetCpuUtilization is present and a memory policy iff                 *)
(* targetMemoryUtilization is present, hence at most two policies.         *)
(***************************************************************************)
ScalableTargetsOf(sid) ==
  {j \in 1..Len(resources) :
     resources[j].kind = "ScalableTarget" /\ resources[j].service = sid}
PoliciesOf(sid, metric) ==
  {j \in 1..Len(resources) :
     /\ resources[j].kind = "ScalingPolicy" /\ resources[j].service = sid
     /\ resources[j].metric = metric}

C9_ConditionalAutoScaling ==
  variant = "multi" =>
    \A i \in 1..Len(props.ecsServices) :
      (pc = "done" \/ (pc # "failed" /\ i < idx)) =>
        LET s == props.ecsServices[i]
            sid == MultiServiceId(props, s)
            a == s.autoScalingConfig
            nCpu == Cardinality(PoliciesOf(sid, "cpu"))
            nMem == Cardinality(PoliciesOf(sid, "memory"))
        IN  /\ a = {} => ScalableTargetsOf(sid) = {} /\ nCpu = 0 /\ nMem = 0
            /\ a # {} =>
                 /\ Cardinality(ScalableTargetsOf(sid)) = 1
                 /\ \A j \in ScalableTargetsOf(sid) :
                      /\ resources[j].minCapacity = Val(a).minCapacity
                      /\ resources[j].maxCapacity = Val(a).maxCapacity
                 /\ nCpu = IF Has(Val(a).targetCpuUtilization) THEN 1 ELSE 0
                 /\ nMem = IF Has(Val(a).targetMemoryUtilization) THEN 1 ELSE 0
            /\ nCpu + nMem \in {0, 1, 2}

C9_Witness ==
  /\ variant = "multi" /\ pc = "done"
  /\ LET a == props.ecsServices[1].autoScalingConfig
         sid == MultiServiceId(props, props.ecsServices[1])
     IN  /\ a # {}
         /\ Val(a).targetCpuUtilization = {}
         /\ Has(Val(a).targetMemoryUtilization)
         /\ Cardinality(PoliciesOf(sid, "memory")) = 1
         /\ PoliciesOf(sid, "cpu") = {}

(***************************************************************************)
(* C10.  The single-service variant never creates a load balancer, a       *)
(* listener, a target group, a certificate or a DNS record, and a          *)
(* completed construction holds exactly one cluster, one task definition   *)
(* with one container, one log group, one security group and one service.  *)
(***************************************************************************)
SingleKinds ==
  {"Cluster", "TaskDefinition", "LogGroup", "Container", "SecurityGroup", "Service"}

C10_SingleVariantHasNoRouting ==
  variant = "single" =>
    /\ \A r \in Resources : r.kind \in SingleKinds
    /\ pc = "done" =>
         /\ \A k \in SingleKinds : Count(k) = 1
         /\ Len(resources) = Cardinality(SingleKinds)
         /\ \A c \in Containers : \A d \in TaskDefs : c.scope = d.id

C10_Witness ==
  /\ variant = "single" /\ pc = "done" /\ Count("Service") = 1
  /\ Count("Cluster") = 1

(***************************************************************************)
(* The rules the specification states for a valid topology, written out    *)
(* independently of the schemas.                                           *)
(***************************************************************************)
StatedCpu == {256, 512, 1024, 2048, 4096}
StatedMemory == {512, 1024, 2048, 3072, 4096, 5120, 6144, 7168, 8192, 16384, 30720}

StatedServiceRulesHold(i) ==
  LET s == ServiceAt(i)
      path == IF variant = "multi" THEN s.healthCheckConfig.path
              ELSE s.healthCheckPath
  IN  /\ s.name # "" /\ s.version # "" /\ s.image.path # ""
      /\ s.port \in 1..65535
      /\ s.desiredCount >= 1
      /\ path # "" /\ SubSeq(path, 1, 1) = "/"
      /\ OptCpuOf(i) \subseteq StatedCpu
      /\ OptMemoryOf(i) \subseteq StatedMemory
      /\ \A l \in s.logGroupConfig :
           /\ l.logGroupName # ""
           /\ l.removalPolicy \in {"destroy", "retain", "snapshot"}
           /\ l.retention \in {"ONE_WEEK", "TWO_WEEKS", "ONE_MONTH"}
      /\ variant = "multi" =>
           \A a \in s.autoScalingConfig :
             /\ a.minCapacity >= 1 /\ a.maxCapacity >= 1
             /\ a.targetCpuUtilization \subseteq 1..100
             /\ a.targetMemoryUtilization \subseteq 1..100

StatedRulesHold ==
  /\ Len(props.appName) >= 3 /\ props.tagEnv # ""
  /\ props.vpc.class = "Vpc"
  /\ variant = "multi" =>
       /\ props.hostedZoneId # "" /\ props.domainName # ""
       /\ props.apiSubdomainName # ""
       /\ Len(props.ecsServices) >= 1
  /\ \A i \in ServiceIndexes : StatedServiceRulesHold(i)

DistinctNames ==
  \A i, j \in ServiceIndexes : i # j => ServiceAt(i).name # ServiceAt(j).name

Over == pc \in {"done", "failed"}

TargetGroupsOf(i) ==
  {j \in 1..Len(resources) :
     resources[j].kind = "TargetGroup" /\ resources[j].index = i}

C12_PriorityCollisionCompiles ==
  (variant = "multi" /\ StatedRulesHold /\ DistinctNames) =>
    /\ pc # "failed" /\ thrown = NoError
    /\ pc = "done" =>
         /\ Count("TargetGroup") = Len(props.ecsServices)
         /\ \A i \in 1..Len(props.ecsServices) :
              /\ Cardinality(TargetGroupsOf(i)) = 1
              /\ \A j \in TargetGroupsOf(i) :
                   /\ resources[j].scope = MultiHttpsListenerId(props)
                   /\ resources[j].priority = props.ecsServices[i].priority

C12_Witness ==
  /\ variant = "multi" /\ pc = "done" /\ Len(props.ecsServices) = 2
  /\ props.ecsServices[1].name # props.ecsServices[2].name
  /\ props.ecsServices[1].priority = props.ecsServices[2].priority
  /\ \E j \in TargetGroupsOf(1) : \E k \in TargetGroupsOf(2) :
       resources[j].priority = resources[k].priority

(***************************************************************************)
(* C13.  A compiled multi-service topology holds, whatever the number of   *)
(* services: one cluster; one load balancer; two listeners, one on 443     *)
(* answering 404 by default and one on 80 redirecting to HTTPS 443; one    *)
(* certificate for *.<tagEnv>.<domainName> whose only alternative name is  *)
(* <apiSubdomainName>.<domainName>; one alias record of that name          *)
(* targeting the load balancer.                                            *)
(***************************************************************************)
ListenersOn(port) ==
  {r \in Resources : r.kind = "Listener" /\ r.port = port}

C13_SharedResourcesOnce ==
  (variant = "multi" /\ pc = "done") =>
    /\ Count("Cluster") = 1
    /\ Count("LoadBalancer") = 1
    /\ Count("Listener") = 2
    /\ Cardinality(ListenersOn(443)) = 1
    /\ \A l \in ListenersOn(443) :
         /\ l.defaultAction.type = "fixed-response"
         /\ l.defaultAction.statusCode = 404
    /\ Cardinality(ListenersOn(80)) = 1
    /\ \A l \in ListenersOn(80) :
         /\ l.defaultAction.type = "redirect"
         /\ l.defaultAction.protocol = "HTTPS"
         /\ l.defaultAction.port = "443"
    /\ Count("Certificate") = 1
    /\ \A c \in {r \in Resources : r.kind = "Certificate"} :
         /\ c.domainName = "*." \o props.tagEnv \o "." \o props.domainName
         /\ c.subjectAlternativeNames =
              <<props.apiSubdomainName \o "." \o props.domainName>>
    /\ Count("ARecord") = 1
    /\ \A a \in {r \in Resources : r.kind = "ARecord"} :
         /\ a.recordName = props.apiSubdomainName \o "." \o props.domainName
         /\ \E b \in Resources : b.kind = "LoadBalancer" /\ b.id = a.target

C13_Witness ==
  /\ variant = "multi" /\ pc = "done" /\ Len(props.ecsServices) = 2
  /\ Count("Service") = 2 /\ Count("Cluster") = 1 /\ Count("Certificate") = 1

(***************************************************************************)
(* C14.  Every compiled service has one security group, with allow-all     *)
(* egress and exactly one ingress rule, on TCP at the service's own port;  *)
(* the source is the load balancer's security group in the multi-service   *)
(* variant and the VPC's CIDR block in the private variant.  No security   *)
(* group ever holds a second ingress rule.                                 *)
(***************************************************************************)
SecurityGroupsOf(svc) ==
  {r \in Resources : r.kind = "SecurityGroup" /\ r.index = svc.index}

ExpectedIngressSource ==
  IF variant = "multi"
  THEN {b.securityGroup : b \in {r \in Resources : r.kind = "LoadBalancer"}}
  ELSE {props.vpc.vpcCidrBlock}

C14_OneIngressRulePerService ==
  /\ \A g \in {r \in Resources : r.kind = "SecurityGroup"} : Len(g.ingress) <= 1
  /\ \A svc \in {r \in Resources : r.kind = "Service"} :
       /\ Len(svc.securityGroups) = 1
       /\ Cardinality(SecurityGroupsOf(svc)) = 1
       /\ \A g \in SecurityGroupsOf(svc) :
            /\ svc.securityGroups = <<g.id>>
            /\ g.allowAllOutbound
            /\ Len(g.ingress) = 1
            /\ g.ingress[1].protocol = "tcp"
            /\ g.ingress[1].port = ServiceAt(svc.index).port
            /\ Cardinality(ExpectedIngressSource) = 1
            /\ g.ingress[1].peer \in ExpectedIngressSource

C14_Witness ==
  /\ variant = "multi" /\ pc = "done" /\ Count("Service") = 2
  /\ \E g, h \in Resources :
       /\ g.kind = "SecurityGroup" /\ h.kind = "SecurityGroup"
       /\ g.index = 1 /\ h.index = 2
       /\ Len(g.ingress) = 1 /\ Len(h.ingress) = 1
       /\ g.ingress[1].port # h.ingress[1].port
       /\ g.ingress[1].peer = h.ingress[1].peer

C14_WitnessSingle ==
  /\ variant = "single" /\ pc = "done" /\ Count("Service") = 1
  /\ \E g \in Resources :
       g.kind = "SecurityGroup" /\ Len(g.ingress) = 1
       /\ g.ingress[1].peer = props.vpc.vpcCidrBlock

(***************************************************************************)
(* C15.  Each target group carries exactly one routing condition, the path *)
(* pattern /<name>/<version>/* of its own service, and two target groups   *)
(* carry the same pattern exactly when <name>/<version> reads the same for *)
(* both services.                                                          *)
(***************************************************************************)
TargetGroups == {r \in Resources : r.kind = "TargetGroup"}
NameSlashVersion(i) == ServiceAt(i).name \o "/" \o ServiceAt(i).version

C15_DerivedPathPattern ==
  variant = "multi" =>
    /\ \A t \in TargetGroups :
         t.conditions = <<"/" \o ServiceAt(t.index).name \o "/"
                              \o ServiceAt(t.index).version \o "/*">>
    /\ \A t, u \in TargetGroups :
         (t.conditions = u.conditions)
           <=> (NameSlashVersion(t.index) = NameSlashVersion(u.index))

C15_Witness ==
  /\ variant = "multi" /\ pc = "done"
  /\ \E t, u \in TargetGroups :
       /\ t.index = 1 /\ u.index = 2
       /\ ServiceAt(1).name # ServiceAt(2).name
       /\ ServiceAt(1).version # ServiceAt(2).version
       /\ t.conditions = u.conditions

(***************************************************************************)
(* C16.  Resources are created in dependency order.  In the creation       *)
(* sequence every task definition comes after a cluster, every service     *)
(* after its cluster, its task definition and its security group, every    *)
(* target group after the service it targets and after the HTTPS listener  *)
(* it is registered on, every listener after its load balancer, the HTTPS  *)
(* listener after its certificate, and every container after its task      *)
(* definition and its log group.                                           *)
(***************************************************************************)
CreatedBefore(j, kind, id) ==
  \E k \in 1..(j - 1) : resources[k].kind = kind /\ resources[k].id = id

C16_DependencyOrder ==
  \A j \in 1..Len(resources) :
    LET r == resources[j]
    IN  /\ r.kind = "TaskDefinition" =>
             \E k \in 1..(j - 1) : resources[k].kind = "Cluster"
        /\ r.kind = "Container" =>
             /\ CreatedBefore(j, "TaskDefinition", r.scope)
             /\ CreatedBefore(j, "LogGroup", r.logging.logGroup)
        /\ r.kind = "Service" =>
             /\ CreatedBefore(j, "Cluster", r.cluster)
             /\ CreatedBefore(j, "TaskDefinition", r.taskDefinition)
             /\ \A n \in 1..Len(r.securityGroups) :
                  CreatedBefore(j, "SecurityGroup", r.securityGroups[n])
        /\ r.kind = "TargetGroup" =>
             /\ CreatedBefore(j, "Listener", r.scope)
             /\ \A n \in 1..Len(r.targets) :
                  CreatedBefore(j, "Service", r.targets[n])
        /\ r.kind = "Listener" =>
             /\ CreatedBefore(j, "LoadBalancer", r.scope)
             /\ r.port = 443 =>
                  \A n \in 1..Len(r.certificates) :
                    CreatedBefore(j, "Certificate", r.certificates[n])
        /\ r.kind = "ARecord" => CreatedBefore(j, "LoadBalancer", r.target)

C16_Witness ==
  /\ variant = "multi" /\ pc = "done" /\ Count("TargetGroup") = 2
  /\ \E j \in 1..Len(resources) :
       /\ resources[j].kind = "Listener" /\ resources[j].port = 443
       /\ CreatedBefore(j, "Certificate", resources[j].certificates[1])

C16_WitnessSingle ==
  /\ variant = "single" /\ pc = "done"
  /\ \E j \in 1..Len(resources) :
       /\ resources[j].kind = "Service"
       /\ CreatedBefore(j, "TaskDefinition", resources[j].taskDefinition)

(***************************************************************************)
(* C17.  Validation rejects the props whenever appName has fewer than 3    *)
(* characters, tagEnv is empty, the service list is empty, or any service  *)
(* has an empty name, a desiredCount below 1, an empty version, an empty   *)
(* image path, or a health-check path that is empty or does not start with *)
(* '/'; one such service among valid ones is enough.  The construction     *)
(* then ends with the validation error, issues reported, nothing created.  *)
(***************************************************************************)
HealthPathOf(i) ==
  IF variant = "multi" THEN ServiceAt(i).healthCheckConfig.path
  ELSE ServiceAt(i).healthCheckPath

C17_ServiceRejected(i) ==
  \/ ServiceAt(i).name = ""
  \/ ServiceAt(i).desiredCount < 1
  \/ ServiceAt(i).version = ""
  \/ ServiceAt(i).image.path = ""
  \/ HealthPathOf(i) = ""
  \/ SubSeq(HealthPathOf(i), 1, 1) # "/"

C17_Rejected ==
  \/ Len(props.appName) < 3
  \/ props.tagEnv = ""
  \/ variant = "multi" /\ Len(props.ecsServices) = 0
  \/ \E i \in ServiceIndexes : C17_ServiceRejected(i)

ValidationError ==
  IF variant = "multi" THEN thrown = MultiInvalid ELSE thrown.type = "ZodError"

C17_ValidationRejects ==
  (C17_Rejected /\ pc # "validate") =>
    /\ pc = "failed" /\ ValidationError
    /\ ReportedIssues # {}
    /\ resources = <<>> /\ services = <<>> /\ taskDefinitions = <<>>

C17_Witness ==
  /\ variant = "multi" /\ pc = "failed" /\ Len(props.ecsServices) = 2
  /\ ~C17_ServiceRejected(1) /\ C17_ServiceRejected(2)
  /\ console = {"ecsServices[2].desiredCount"}
  /\ resources = <<>>

(***************************************************************************)
(* C18.  Validation of an autoscaling block reports minCapacity exactly    *)
(* when it is below 1, maxCapacity exactly when it is below 1 and a target *)
(* utilisation exactly when it is given and outside 1..100; the bounds are *)
(* not compared, so a block with maxCapacity < minCapacity is accepted and *)
(* its scalable target gets both bounds unchanged.                         *)
(***************************************************************************)
AutoScalingPath(i, field) ==
  "ecsServices[" \o ToString(i) \o "].autoScalingConfig." \o field

C18_AutoScalingValidation ==
  (variant = "multi" /\ pc # "validate") =>
    \A i \in 1..Len(props.ecsServices) :
      \A a \in props.ecsServices[i].autoScalingConfig :
        /\ AutoScalingPath(i, "minCapacity") \in console <=> a.minCapacity < 1
        /\ AutoScalingPath(i, "maxCapacity") \in console <=> a.maxCapacity < 1
        /\ AutoScalingPath(i, "targetCpuUtilization") \in console
             <=> ~(a.targetCpuUtilization \subseteq 1..100)
        /\ AutoScalingPath(i, "targetMemoryUtilization") \in console
             <=> ~(a.targetMemoryUtilization \subseteq 1..100)
        /\ "ecsServices[" \o ToString(i) \o "].autoScalingConfig" \notin console
        /\ pc = "done" =>
             \A j \in ScalableTargetsOf(MultiServiceId(props, props.ecsServices[i])) :
               /\ resources[j].minCapacity = a.minCapacity
               /\ resources[j].maxCapacity = a.maxCapacity

C18_Witness ==
  /\ variant = "multi" /\ pc = "done" /\ console = {}
  /\ \E a \in props.ecsServices[1].autoScalingConfig :
       /\ a.minCapacity = 3 /\ a.maxCapacity = 1
       /\ \E j \in ScalableTargetsOf(MultiServiceId(props, props.ecsServices[1])) :
            resources[j].minCapacity = 3 /\ resources[j].maxCapacity = 1

(***************************************************************************)
(* C19.  Compute-size validation, in both variants: a supplied cpu is      *)
(* reported exactly when it is outside {256, 512, 1024, 2048, 4096}, a     *)
(* supplied memoryLimitMiB exactly when it is outside {512, 1024, 2048,    *)
(* 3072, 4096, 5120, 6144, 7168, 8192, 16384, 30720}, each independently   *)
(* of the other, and when both are inside no compute-size issue is         *)
(* reported whatever the pair.                                             *)
(***************************************************************************)
FargatePath(i, field) ==
  IF variant = "multi"
  THEN "ecsServices[" \o ToString(i) \o "].fargateConfig." \o field
  ELSE "service.fargateConfig." \o field

FargateBlockPath(i) ==
  IF variant = "multi"
  THEN "ecsServices[" \o ToString(i) \o "].fargateConfig"
  ELSE "service.fargateConfig"

C19_ComputeSizeEnumerations ==
  pc # "validate" =>
    \A i \in ServiceIndexes :
      /\ FargatePath(i, "cpu") \in ReportedIssues
           <=> ~(OptCpuOf(i) \subseteq StatedCpu)
      /\ FargatePath(i, "memoryLimitMiB") \in ReportedIssues
           <=> ~(OptMemoryOf(i) \subseteq StatedMemory)
      /\ FargateBlockPath(i) \notin ReportedIssues
      /\ (StatedRulesHold /\ ServiceAt(i).fargateConfig # {}) =>
           /\ ReportedIssues = {}
           /\ ~ValidationError
           /\ pc \in {"done", "failed"} /\ DistinctNames =>
                \E t \in TaskDefs :
                  /\ t.index = i
                  /\ OptCpuOf(i) \subseteq {t.cpu}
                  /\ OptMemoryOf(i) \subseteq {t.memoryLimitMiB}

C19_Witness ==
  /\ variant = "single" /\ pc = "done"
  /\ OptCpuOf(1) = {256} /\ OptMemoryOf(1) = {30720}
  /\ \E t \in TaskDefs : t.cpu = 256 /\ t.memoryLimitMiB = 30720

C19_WitnessMulti ==
  /\ variant = "multi" /\ pc = "done"
  /\ OptCpuOf(1) = {4096} /\ OptMemoryOf(1) = {512}
  /\ \E t \in TaskDefs : t.cpu = 4096 /\ t.memoryLimitMiB = 512

(***************************************************************************)
(* C20.  Log-group defaulting, in both variants: the log group of a        *)
(* service that omits logGroupConfig is named <name>-log-group, is         *)
(* destroyed on teardown and retains two weeks; the log group of a service *)
(* that supplies the block has exactly the three supplied values.          *)
(***************************************************************************)
LogGroups == {r \in Resources : r.kind = "LogGroup"}

C20_LogGroupBlockDefault ==
  /\ \A g \in LogGroups :
       LET s == ServiceAt(g.index)
       IN  /\ s.logGroupConfig = {} =>
                g.props = [logGroupName |-> s.name \o "-log-group",
                           removalPolicy |-> "destroy",
                           retention |-> "TWO_WEEKS"]
           /\ \A l \in s.logGroupConfig :
                /\ g.props.logGroupName = l.logGroupName
                /\ g.props.removalPolicy = l.removalPolicy
                /\ g.props.retention = l.retention
  /\ pc = "done" =>
       \A i \in ServiceIndexes : \E g \in LogGroups : g.index = i

C20_Witness ==
  /\ variant = "single" /\ pc = "done"
  /\ props.service.logGroupConfig = {}
  /\ \E g \in LogGroups :
       g.props = [logGroupName |-> props.service.name \o "-log-group",
                  removalPolicy |-> "destroy", retention |-> "TWO_WEEKS"]

C20_WitnessSupplied ==
  /\ variant = "multi" /\ pc = "done" /\ Len(props.ecsServices) = 2
  /\ props.ecsServices[1].logGroupConfig =
       {[logGroupName |-> "custom-logs", removalPolicy |-> "retain",
         retention |-> "ONE_WEEK"]}
  /\ \E g, h \in LogGroups :
       /\ g.index = 1 /\ g.props.retention = "ONE_WEEK"
       /\ g.props.logGroupName = "custom-logs" /\ g.props.removalPolicy = "retain"
       /\ h.index = 2 /\ h.props.retention = "TWO_WEEKS"

(***************************************************************************)
(* C21.  Compute-size defaults, in both variants: a task definition's cpu  *)
(* is the supplied cpu, or 512 when none is supplied, and its memory is    *)
(* the supplied memoryLimitMiB, or 1024 when none is supplied, each        *)
(* whether or not the other is supplied and whether or not the             *)
(* fargateConfig block is present.                                         *)
(***************************************************************************)
C21_ComputeSizeDefaults ==
  \A t \in TaskDefs :
    /\ {t.cpu} = IF OptCpuOf(t.index) = {} THEN {512} ELSE OptCpuOf(t.index)
    /\ {t.memoryLimitMiB} =
         IF OptMemoryOf(t.index) = {} THEN {1024} ELSE OptMemoryOf(t.index)

C21_Witness ==
  /\ variant = "single" /\ pc = "done"
  /\ props.service.fargateConfig # {}
  /\ OptCpuOf(1) = {} /\ OptMemoryOf(1) = {2048}
  /\ \E t \in TaskDefs : t.cpu = 512 /\ t.memoryLimitMiB = 2048

(***************************************************************************)
(* C22.  When the props violate several constraints at once, the error the *)
(* constructor throws carries all of the violations, in both variants.     *)
(***************************************************************************)
C22_ErrorCarriesAllViolations ==
  (pc = "failed" /\ resources = <<>> /\ Cardinality(PropsIssues) >= 2) =>
    thrown.issues = PropsIssues

(***************************************************************************)
(* C23.  The container health check of every service, in both variants,   *)
(* is the shell command 'curl -f http://localhost:<port><path> || exit 1'  *)
(* with the service's own port and health-check path, and the container    *)
(* has the single port mapping of that same port.                          *)
(***************************************************************************)
C23_HealthCheckProbe ==
  \A c \in Containers :
    LET s == ServiceAt(c.index)
    IN  /\ c.healthCheck.command =
             <<"CMD-SHELL",
               "curl -f http://localhost:" \o ToString(s.port)
                 \o HealthPathOf(c.index) \o " || exit 1">>
        /\ c.portMappings = <<[containerPort |-> s.port]>>

C23_Witness ==
  /\ variant = "multi" /\ pc = "done"
  /\ \E c, d \in Containers :
       /\ c.index = 1 /\ d.index = 2
       /\ c.portMappings # d.portMappings
       /\ c.healthCheck.command # d.healthCheck.command
       /\ c.healthCheck.command[2] = "curl -f http://localhost:8080/health || exit 1"

(***************************************************************************)
(* C24.  Aurora credentials: the construct creates a new secret if and     *)
(* only if createCredentials is true; when it is false or omitted no       *)
(* secret is created and the existing one is referenced by name; in both   *)
(* cases the secret name is <appName>-aurora-postgres-db-credentials and   *)
(* the cluster's credentials are that secret.                              *)
(***************************************************************************)
Secrets == {r \in Resources : r.kind = "Secret"}
SecretImports == {r \in Resources : r.kind = "SecretImport"}
DatabaseClusters == {r \in Resources : r.kind = "DatabaseCluster"}

C24_AuroraCredentials ==
  variant = "aurora" =>
    /\ props.createCredentials # {TRUE} => Secrets = {}
    /\ props.createCredentials = {TRUE} => SecretImports = {}
    /\ pc \in {"dbCluster", "writerEndpoint", "readerEndpoint", "done"} =>
         /\ Cardinality(Secrets \cup SecretImports) = 1
         /\ props.createCredentials = {TRUE} <=> Secrets # {}
         /\ \A c \in Secrets \cup SecretImports :
              c.secretName = props.appName \o "-aurora-postgres-db-credentials"
    /\ pc = "done" =>
         /\ Cardinality(DatabaseClusters) = 1
         /\ \A d \in DatabaseClusters :
              \E c \in Secrets \cup SecretImports : d.credentials = c.id

C24_Witness ==
  /\ variant = "aurora" /\ pc = "done"
  /\ props.createCredentials = {}
  /\ Secrets = {}
  /\ \E c \in SecretImports : \E d \in DatabaseClusters :
       /\ d.credentials = c.id
       /\ c.secretName = props.appName \o "-aurora-postgres-db-credentials"

C24_WitnessCreated ==
  /\ variant = "aurora" /\ pc = "done"
  /\ props.createCredentials = {TRUE}
  /\ \E c \in Secrets : \E d \in DatabaseClusters : d.credentials = c.id

(***************************************************************************)
(* C25.  Fan-out in the multi-service variant: the public arrays services  *)
(* and taskDefinitions always have the same length, k once k services have *)
(* been pushed; entry i of each belongs to service i of the props, and the *)
(* i-th service runs the i-th task definition; a completed construction of *)
(* N services has N entries in each and N target groups on the HTTPS       *)
(* listener, one per service, at that service's priority and port.         *)
(***************************************************************************)
C25_FanOut ==
  variant = "multi" =>
    /\ Len(services) = Len(taskDefinitions)
    /\ Len(services) = IF pc = "autoScaling" THEN idx ELSE idx - 1
    /\ \A k \in 1..Len(services) :
         \E v, t \in Resources :
           /\ v.kind = "Service" /\ v.index = k /\ v.id = services[k]
           /\ v.serviceName = props.ecsServices[k].name
           /\ t.kind = "TaskDefinition" /\ t.index = k
           /\ t.id = taskDefinitions[k]
           /\ v.taskDefinition = taskDefinitions[k]
    /\ pc = "done" =>
         /\ Len(services) = Len(props.ecsServices)
         /\ Cardinality(TargetGroups) = Len(props.ecsServices)
         /\ \A i \in 1..Len(props.ecsServices) :
              \E t \in TargetGroups :
                /\ t.index = i
                /\ t.scope = MultiHttpsListenerId(props)
                /\ t.targets = <<services[i]>>
                /\ t.priority = props.ecsServices[i].priority
                /\ t.port = props.ecsServices[i].port

C25_Witness ==
  /\ variant = "multi" /\ pc = "done" /\ Len(props.ecsServices) = 2
  /\ Len(services) = 2 /\ Len(taskDefinitions) = 2
  /\ services[1] # services[2] /\ taskDefinitions[1] # taskDefinitions[2]
  /\ Cardinality(TargetGroups) = 2

(***************************************************************************)
(* C26.  The kind of the network handle never changes the validation       *)
(* outcome: props with an imported or looked-up VPC (which satisfies the   *)
(* declared type IVpc) are rejected by validation only if the same props   *)
(* with a VPC created in the app are.                                      *)
(***************************************************************************)
IssuesWithCreatedVpc ==
  LET p == [props EXCEPT !.vpc.class = "Vpc"]
  IN  IF variant = "multi"
      THEN MultiServiceECSFargateLoadBalancedConstructPropsSchema(p)
      ELSE SingleServicePrivateECSFargateConstructPropsSchema(p)

C26_HandleKindIrrelevant ==
  pc # "validate" => (ValidationError <=> IssuesWithCreatedVpc # {})

(***************************************************************************)
(* C27.  In the multi-service variant a service's target group health      *)
(* check has the path the container probe requests, the interval and the   *)
(* timeout of the container health check, and the target group's port is   *)
(* the container's mapped port.                                            *)
(***************************************************************************)
C27_HealthChecksAgree ==
  variant = "multi" =>
    \A t \in TargetGroups :
      /\ \E c \in Containers : c.index = t.index
      /\ \A c \in Containers :
           c.index = t.index =>
             /\ c.healthCheck.command[2] =
                  "curl -f http://localhost:" \o ToString(t.port)
                    \o t.healthCheck.path \o " || exit 1"
             /\ t.healthCheck.interval = c.healthCheck.interval
             /\ t.healthCheck.timeout = c.healthCheck.timeout
             /\ c.portMappings = <<[containerPort |-> t.port]>>

C27_Witness ==
  /\ variant = "multi" /\ pc = "done"
  /\ props.ecsServices[1].healthCheckConfig.intervalSeconds = {10}
  /\ props.ecsServices[1].healthCheckConfig.timeoutSeconds = {}
  /\ \E t \in TargetGroups : \E c \in Containers :
       /\ t.index = 1 /\ c.index = 1
       /\ t.healthCheck.interval = 10 /\ c.healthCheck.interval = 10
       /\ t.healthCheck.timeout = 5 /\ c.healthCheck.timeout = 5

(***************************************************************************)
(* C28.  One service model for both variants: what the multi-service       *)
(* constructor derives for a service without health-check timing           *)
(* overrides - task definition, container, log group, desired count - is   *)
(* what the single-service constructor derives for the same common fields  *)
(* under the same appName; the service differs in assignPublicIp only      *)
(* (true against false), the security group in the source of its ingress   *)
(* rule only.                                                              *)
(***************************************************************************)
AsSingleProps(i) ==
  [appName |-> props.appName, tagEnv |-> props.tagEnv, vpc |-> props.vpc,
   service |-> SingleService(props.ecsServices[i])]

C29_PropsNeverModified == [][props' = props]_vars

C29_Witness ==
  /\ variant = "multi" /\ pc = "done"
  /\ DOMAIN props.ecsServices[1].envVariables # {}
  /\ "PORT" \notin DOMAIN props.ecsServices[1].envVariables
  /\ \E c \in Containers :
       c.index = 1 /\ "PORT" \in DOMAIN c.environment

(***************************************************************************)
(* C30.  In a multi-service topology with pairwise distinct service names  *)
(* the identifiers derived per service (task definition, log group,        *)
(* security group, service, target group, container, task family) and the  *)
(* identifiers of the shared cluster, certificate, hosted-zone lookup and  *)
(* load balancer are pairwise distinct, each has its documented form, and  *)
(* no construct is ever refused for a duplicate identifier.                *)
(***************************************************************************)
IdentifiedKinds ==
  {"TaskDefinition", "LogGroup", "SecurityGroup", "Service", "TargetGroup",
   "Container", "Cluster", "Certificate", "HostedZoneImport", "LoadBalancer"}

Identified == {j \in 1..Len(resources) : resources[j].kind \in IdentifiedKinds}

DocumentedId(r) ==
  LET name == IF r.kind \in {"Cluster", "Certificate", "HostedZoneImport",
                             "LoadBalancer"}
              THEN "" ELSE props.ecsServices[r.index].name
  IN  CASE r.kind = "TaskDefinition" -> name \o "-task-definition"
        [] r.kind = "LogGroup" -> name \o "-log-group"
        [] r.kind = "SecurityGroup" -> name \o "-security-group"
        [] r.kind = "Service" -> props.appName \o "-" \o name \o "-service"
        [] r.kind = "TargetGroup" -> props.appName \o "-" \o name \o "-tg"
        [] r.kind = "Container" -> name \o "-container"
        [] r.kind = "Cluster" -> props.appName \o "-cluster"
        [] r.kind = "Certificate" -> props.appName \o "-ssl-certificate"
        [] r.kind = "HostedZoneImport" -> props.appName \o "-hosted-zone-lookup"
        [] r.kind = "LoadBalancer" ->
             props.appName \o "-" \o props.tagEnv \o "-load-balancer"

C30_DerivedIdsDistinct ==
  (variant = "multi" /\ DistinctNames) =>
    /\ thrown \in {NoError, MultiInvalid}
    /\ \A j \in Identified : resources[j].id = DocumentedId(resources[j])
    /\ \A j, k \in Identified : j # k => resources[j].id # resources[k].id
    /\ \A t, u \in TaskDefs :
         /\ t.family = props.ecsServices[t.index].name \o "-task-family"
         /\ t.index # u.index => t.family # u.family
         /\ \A j \in Identified : resources[j].id # t.family

C30_Witness ==
  /\ variant = "multi" /\ pc = "done" /\ Len(props.ecsServices) = 2
  /\ DistinctNames
  /\ Cardinality({resources[j].id : j \in Identified}) = 16

====
